---- MODULE Spec2Model ----
(***************************************************************************)
(* Model of the document core of the editor: TextBuffer                    *)
(* (src/src/text_buffer.rs).  Content is a sequence of UTF-8 bytes; every  *)
(* offset is a byte offset, as in the source.                              *)
(***************************************************************************)
EXTENDS Integers, Sequences, FiniteSets, TLC

(***************************************************************************)
(* Bounds of the model.                                                    *)
(***************************************************************************)
\* greatest byte length an insert may grow the content to
MaxLen == 4
\* greatest magnitude of a move_cursor offset
MaxMove == 2
\* greatest byte length of a document of the insert-then-delete script
MaxDocLen == 3
\* the column the vertical-move script starts from
StartColumn == 5
\* number of lines of a document of the vertical-move script
NumLines == 3
\* how far past the end of the content the query script asks
MaxBeyond == 1
\* longest enumerated text given to the scanner, in characters
MaxScanLen == 3
\* longest enumerated text of keyword characters given to the scanner
MaxWordsLen == 3
\* longest enumerated text of line characters given to the scanner
MaxLinesLen == 3
\* most edits recorded in one undo script
MaxEdits == 3
\* vertical moves in one run of the column script
MaxRun == 2
\* tabs added with the + button
MaxTabs == 1
\* distinct paths handed to add_file (more than RecentFilesManager keeps)
NumPaths == 11

(***************************************************************************)
(* The byte alphabet.  Characters are their UTF-8 encodings:               *)
(*   'a' = 97, LF = 10, CR = 13, U+0301 COMBINING ACUTE = 204 129.         *)
(***************************************************************************)
LF == 10
CR == 13
SP == 32
LetterA == 97
MarkLead == 204
MarkCont == 129
\* '_' = 95 and U+00E9 LATIN SMALL LETTER E WITH ACUTE = 195 169
Underscore == 95
EAcuteLead == 195
EAcuteCont == 169

\* Option<T>: <<>> is None, <<x>> is Some(x); a Range is Some(<<start, end>>)
None == <<>>
Some(x) == <<x>>
Range(s, e) == <<s, e>>

Max(S) == CHOOSE x \in S : \A y \in S : y <= x
Min(S) == CHOOSE x \in S : \A y \in S : x <= y
\* the elements of a finite set of numbers in increasing order
RECURSIVE SortedSeq(_)
SortedSeq(S) == IF S = {} THEN <<>> ELSE <<Min(S)>> \o SortedSeq(S \ {Min(S)})

\* s[a..b) in byte offsets (Rust's &s[a..b])
Slice(s, a, b) == SubSeq(s, a + 1, b)

(***************************************************************************)
(* str: UTF-8 structure                                                    *)
(***************************************************************************)
IsContinuationByte(b) == b >= 128 /\ b <= 191

\* str::is_char_boundary
is_char_boundary(s, i) ==
    \/ i = 0
    \/ i = Len(s)
    \/ (i < Len(s) /\ ~IsContinuationByte(s[i + 1]))

\* byte offsets at which a character of s starts
CharStarts(s) == {i \in 0..(Len(s) - 1) : ~IsContinuationByte(s[i + 1])}

\* the start of the character before the one starting at i (i > 0)
PrevCharStart(s, i) == Max({j \in CharStarts(s) : j < i})

\* the range a..b can be sliced or drained: in bounds, ordered, on char boundaries
ValidRange(s, a, b) ==
    /\ a <= b
    /\ b <= Len(s)
    /\ is_char_boundary(s, a)
    /\ is_char_boundary(s, b)

(***************************************************************************)
(* unicode_segmentation: extended grapheme clusters (UAX #29) restricted   *)
(* to the alphabet: GB3 CR x LF, GB4/GB5 break around CR and LF,           *)
(* GB9 no break before Extend (U+0301), GB999 break otherwise.             *)
(***************************************************************************)
IsExtend(s, i) == s[i + 1] = MarkLead
IsControl(s, i) == s[i + 1] = LF \/ s[i + 1] = CR

GraphemeBreakBefore(s, i) ==
    LET p == PrevCharStart(s, i)
    IN  /\ ~(s[p + 1] = CR /\ s[i + 1] = LF)
        /\ ~(IsExtend(s, i) /\ ~IsControl(s, p))

\* the byte offsets grapheme_indices(true) yields for s
grapheme_indices(s) ==
    {i \in CharStarts(s) : i = 0 \/ GraphemeBreakBefore(s, i)}

(***************************************************************************)
(* xi_unicode::LineBreakIterator (UAX #14) restricted to the alphabet:     *)
(* LB4/LB5 break after LF and after CR unless LF follows, LB6/LB7 no break *)
(* before CR, LF, SP, LB9/LB10 a mark joins what precedes it, LB18 break   *)
(* after spaces, LB28 no break between letters, LB3 break at end of text.  *)
(* The iterator yields nothing for the empty string.                       *)
(***************************************************************************)
LineBreakBefore(s, i) ==
    LET p == s[PrevCharStart(s, i) + 1]
        n == s[i + 1]
    IN  \/ p = LF
        \/ (p = CR /\ n # LF)
        \/ (p = SP /\ n \notin {LF, CR, SP})

LineBreakIterator(s) ==
    IF s = <<>> THEN {}
    ELSE {i \in CharStarts(s) \ {0} : LineBreakBefore(s, i)} \cup {Len(s)}

(***************************************************************************)
(* TextBuffer                                                              *)
(***************************************************************************)
VARIABLES
    content,           \* String, as bytes
    line_breaks,       \* Vec<usize>
    cursor_position,   \* usize
    selection,         \* Option<Range<usize>>
    preferred_column,  \* Option<usize>
    panicked,          \* a method call has panicked: the buffer is dead
    last,              \* the last method called, with its arguments
    scene,             \* the caller's script: its position and what it remembers
    scan,              \* apply_syntax_highlighting: its position, locals and tags
    undo_stack,        \* EditorState::undo_stack, Vec<String>, oldest first
    redo_stack,        \* EditorState::redo_stack, Vec<String>
    is_modified,       \* EditorState::is_modified
    ui,                \* the widget's text, the EditorState mutex and the handlers running
    current_file,      \* EditorState::current_file, Option<PathBuf>
    recent_files,      \* RecentFilesManager::recent_files, Vec<PathBuf>
    tabs,              \* the gtk::TextBuffers of the tabs added, and the tab the view shows
    disk               \* the files written, by path

bufVars == <<content, line_breaks, cursor_position, selection, preferred_column, panicked>>
winVars == <<current_file, recent_files, tabs, disk>>
edVars == <<undo_stack, redo_stack, is_modified, ui, winVars>>
vars == <<content, line_breaks, cursor_position, selection, preferred_column, panicked, last,
          scene, scan, undo_stack, redo_stack, is_modified, ui, current_file, recent_files,
          tabs, disk>>

\* the path the file dialogs return
Paths == {"p"}

\* RecentFilesManager::new(10)
max_files == 10

\* only the first tab exists and the view shows it (tab 0)
TabsNew == [texts |-> <<>>, shown |-> 0]

\* nothing has been written
DiskNew == [path \in Paths |-> <<>>]

\* the widget is empty, the mutex is free and no handler is running
UiNew == [text |-> <<>>, held_by |-> <<>>, running |-> <<>>, outcome |-> "none"]

\* no scan of the gtk::TextBuffer has started
Idle ==
    [pc |-> "idle", text |-> <<>>, pos |-> 0, in_string |-> FALSE, string_start |-> 0,
     keywords |-> {}, types |-> {}, strings |-> {}, comments |-> {}, reported |-> {},
     errors |-> {}, line_errors |-> {}]

\* the buffer as a value
Buf == [content |-> content, line_breaks |-> line_breaks,
        cursor_position |-> cursor_position, selection |-> selection,
        preferred_column |-> preferred_column, panicked |-> panicked]

Panic(b) == [b EXCEPT !.panicked = TRUE]

\* fn update_line_breaks: the value line_breaks gets for content s
update_line_breaks(s) ==
    LET pushed == SortedSeq({0} \cup {idx \in LineBreakIterator(s) : idx > 0})
    IN  IF s # <<>> /\ pushed[Len(pushed)] # Len(s)
        THEN Append(pushed, Len(s))
        ELSE pushed

\* fn new
new == [content |-> <<>>, line_breaks |-> <<0>>, cursor_position |-> 0,
        selection |-> None, preferred_column |-> None, panicked |-> FALSE]

\* set_text that forgets to reset the cursor
set_text_keeps_cursor(b, text) ==
    [b EXCEPT !.content = text,
              !.line_breaks = update_line_breaks(text),
              !.selection = None,
              !.preferred_column = None]

\* fn set_text
set_text(b, text) ==
    [b EXCEPT !.content = text,
              !.line_breaks = update_line_breaks(text),
              !.cursor_position = 0,
              !.selection = None,
              !.preferred_column = None]

\* fn set_selection
set_selection(b, range) == [b EXCEPT !.selection = range]

\* delete_range that forgets to rebuild the line index
delete_range_stale_index(b, start, end) ==
    IF ~ValidRange(b.content, start, end) THEN Panic(b)
    ELSE [b EXCEPT !.content = Slice(b.content, 0, start)
                                \o Slice(b.content, end, Len(b.content))]

\* fn delete_range: String::drain panics on a range that is reversed, out of
\* bounds or off a char boundary
delete_range(b, start, end) ==
    IF ~ValidRange(b.content, start, end) THEN Panic(b)
    ELSE LET c == Slice(b.content, 0, start) \o Slice(b.content, end, Len(b.content))
         IN  [b EXCEPT !.content = c, !.line_breaks = update_line_breaks(c)]

\* the selection.take() + delete_range(range) prefix of insert and delete_*
take_and_delete(b) ==
    delete_range([b EXCEPT !.selection = None], b.selection[1], b.selection[2])

\* fn insert: String::insert_str panics off a char boundary
insert(b, text) ==
    LET b1 == IF b.selection # None THEN take_and_delete(b) ELSE b
        at == b1.cursor_position
    IN  IF b1.panicked THEN b1
        ELSE IF at > Len(b1.content) \/ ~is_char_boundary(b1.content, at) THEN Panic(b1)
        ELSE LET c == Slice(b1.content, 0, at) \o text \o Slice(b1.content, at, Len(b1.content))
             IN  [b1 EXCEPT !.content = c,
                            !.cursor_position = at + Len(text),
                            !.line_breaks = update_line_breaks(c),
                            !.preferred_column = None]

\* delete_backward that steps back one character, not one grapheme cluster
delete_backward_one_char(b) ==
    IF b.selection # None THEN
        LET b1 == take_and_delete(b)
        IN  IF b1.panicked THEN b1 ELSE [b1 EXCEPT !.preferred_column = None]
    ELSE IF b.cursor_position > 0 THEN
        LET before == {i \in CharStarts(b.content) : i < b.cursor_position}
            prev_char_boundary == IF before = {} THEN 0 ELSE Max(before)
            b1 == delete_range(b, prev_char_boundary, b.cursor_position)
        IN  IF b1.panicked THEN b1
            ELSE [b1 EXCEPT !.cursor_position = prev_char_boundary,
                            !.preferred_column = None]
    ELSE [b EXCEPT !.preferred_column = None]

\* fn delete_backward
delete_backward(b) ==
    IF b.selection # None THEN
        LET b1 == take_and_delete(b)
        IN  IF b1.panicked THEN b1 ELSE [b1 EXCEPT !.preferred_column = None]
    ELSE IF b.cursor_position > 0 THEN
        LET before == {i \in grapheme_indices(b.content) : i < b.cursor_position}
            prev_char_boundary == IF before = {} THEN 0 ELSE Max(before)
            b1 == delete_range(b, prev_char_boundary, b.cursor_position)
        IN  IF b1.panicked THEN b1
            ELSE [b1 EXCEPT !.cursor_position = prev_char_boundary,
                            !.preferred_column = None]
    ELSE [b EXCEPT !.preferred_column = None]

\* delete_forward that removes one character, not one grapheme cluster
delete_forward_one_char(b) ==
    IF b.selection # None THEN
        LET b1 == take_and_delete(b)
        IN  IF b1.panicked THEN b1 ELSE [b1 EXCEPT !.preferred_column = None]
    ELSE IF b.cursor_position < Len(b.content) THEN
        LET after == {i \in CharStarts(b.content) : i > b.cursor_position}
            next_char_boundary == IF after = {} THEN Len(b.content) ELSE Min(after)
            b1 == delete_range(b, b.cursor_position, next_char_boundary)
        IN  IF b1.panicked THEN b1 ELSE [b1 EXCEPT !.preferred_column = None]
    ELSE [b EXCEPT !.preferred_column = None]

\* fn delete_forward
delete_forward(b) ==
    IF b.selection # None THEN
        LET b1 == take_and_delete(b)
        IN  IF b1.panicked THEN b1 ELSE [b1 EXCEPT !.preferred_column = None]
    ELSE IF b.cursor_position < Len(b.content) THEN
        LET after == {i \in grapheme_indices(b.content) : i > b.cursor_position}
            next_char_boundary == IF after = {} THEN Len(b.content) ELSE Min(after)
            b1 == delete_range(b, b.cursor_position, next_char_boundary)
        IN  IF b1.panicked THEN b1 ELSE [b1 EXCEPT !.preferred_column = None]
    ELSE [b EXCEPT !.preferred_column = None]

\* the selection an extending or non-extending move leaves (both move methods)
moved_selection(b, new_position, extend_selection) ==
    IF extend_selection THEN
        IF b.selection # None /\ b.selection[1] = b.cursor_position
            THEN Range(new_position, b.selection[2])
        ELSE IF b.selection # None
            THEN Range(b.selection[1], new_position)
        ELSE Range(b.cursor_position, new_position)
    ELSE None

\* move_cursor without the final min(len)
move_cursor_unclamped(b, offset, extend_selection) ==
    LET new_position == IF offset < 0
                        THEN (IF b.cursor_position < -offset THEN 0
                              ELSE b.cursor_position + offset)
                        ELSE b.cursor_position + offset
    IN  [b EXCEPT !.selection = moved_selection(b, new_position, extend_selection),
                  !.cursor_position = new_position,
                  !.preferred_column = None]

\* move_cursor that also empties the line index
move_cursor_resets_index(b, offset, extend_selection) ==
    LET moved == IF offset < 0
                 THEN (IF b.cursor_position < -offset THEN 0 ELSE b.cursor_position + offset)
                 ELSE b.cursor_position + offset
        new_position == IF moved < Len(b.content) THEN moved ELSE Len(b.content)
    IN  [b EXCEPT !.selection = moved_selection(b, new_position, extend_selection),
                  !.cursor_position = new_position,
                  !.line_breaks = <<0>>,
                  !.preferred_column = None]

\* fn move_cursor: saturating_sub / saturating_add, then min(len)
move_cursor(b, offset, extend_selection) ==
    LET moved == IF offset < 0
                 THEN (IF b.cursor_position < -offset THEN 0 ELSE b.cursor_position + offset)
                 ELSE b.cursor_position + offset
        new_position == IF moved < Len(b.content) THEN moved ELSE Len(b.content)
    IN  [b EXCEPT !.selection = moved_selection(b, new_position, extend_selection),
                  !.cursor_position = new_position,
                  !.preferred_column = None]

\* slice::binary_search on the strictly increasing line_breaks:
\* <<TRUE, idx>> is Ok(idx), <<FALSE, idx>> is Err(insertion point)
binary_search(seq, x) ==
    IF \E i \in 1..Len(seq) : seq[i] = x
    THEN <<TRUE, (CHOOSE i \in 1..Len(seq) : seq[i] = x) - 1>>
    ELSE <<FALSE, Cardinality({i \in 1..Len(seq) : seq[i] < x})>>

\* line_at_offset that returns the insertion point itself on Err
line_at_offset_insertion_point(b, offset) ==
    binary_search(b.line_breaks, offset)[2]

\* fn line_at_offset (0-based line index)
line_at_offset(b, offset) ==
    LET r == binary_search(b.line_breaks, offset)
    IN  IF r[1] THEN r[2]
        ELSE (IF r[2] = 0 THEN 0 ELSE r[2] - 1)

\* fn line_count
line_count(b) == Len(b.line_breaks)

\* fn line_range: None or Some(start..end)
line_range(b, line_index) ==
    IF line_index >= Len(b.line_breaks) THEN None
    ELSE LET start == b.line_breaks[line_index + 1]
             end == IF line_index + 1 < Len(b.line_breaks)
                    THEN b.line_breaks[line_index + 2]
                    ELSE Len(b.content)
         IN  Range(start, end)

\* column_at_offset slices content[line_start..offset]: it panics unless that
\* range is valid
column_at_offset_panics(b, offset) ==
    ~ValidRange(b.content, b.line_breaks[line_at_offset(b, offset) + 1], offset)

\* fn column_at_offset
column_at_offset(b, offset) ==
    LET line_start == b.line_breaks[line_at_offset(b, offset) + 1]
    IN  Cardinality(grapheme_indices(Slice(b.content, line_start, offset)))

\* the "Find target position" loop of move_cursor_vertically over the
\* graphemes of the target line
target_position(b, start, end, preferred) ==
    LET idxs == SortedSeq(grapheme_indices(Slice(b.content, start, end)))
        steps == IF preferred < Len(idxs) THEN preferred ELSE Len(idxs)
    IN  IF steps = 0 THEN start ELSE start + idxs[steps]

\* fn move_cursor_vertically
move_cursor_vertically(b, lines, extend_selection) ==
    LET current_line == line_at_offset(b, b.cursor_position)
        target_line == IF current_line + lines < 0 THEN 0 ELSE current_line + lines
    IN  IF b.preferred_column = None /\ column_at_offset_panics(b, b.cursor_position)
        THEN Panic(b)
        ELSE
        LET preferred == IF b.preferred_column # None THEN b.preferred_column[1]
                         ELSE column_at_offset(b, b.cursor_position)
            lr == line_range(b, target_line)
            new_position ==
                IF lr # None THEN target_position(b, lr[1], lr[2], preferred)
                ELSE IF lines < 0 THEN 0 ELSE Len(b.content)
        IN  [b EXCEPT !.preferred_column = Some(preferred),
                      !.selection = moved_selection(b, new_position, extend_selection),
                      !.cursor_position = new_position]

\* char::is_alphanumeric of the character whose first byte is byte: ASCII
\* digits and letters, and U+00E9
is_alphanumeric(byte) ==
    \/ (byte >= 48 /\ byte <= 57)
    \/ (byte >= 65 /\ byte <= 90)
    \/ (byte >= 97 /\ byte <= 122)
    \/ byte = EAcuteLead

\* fn is_word_char, of the character of s that starts at byte offset i
is_word_char(s, i) == is_alphanumeric(s[i + 1]) \/ s[i + 1] = Underscore

\* get_word_boundary_at_offset slices content[..offset] and content[offset..]:
\* it panics unless offset is a char boundary within the content
get_word_boundary_at_offset_panics(b, offset) ==
    ~ValidRange(b.content, 0, offset)

\* fn get_word_boundary_at_offset: the clusters before offset are walked
\* backwards and those after it forwards while their first character is a word
\* character; the forward walk sets end = abs_idx + 1
get_word_boundary_at_offset(b, offset) ==
    LET s == b.content
        back == grapheme_indices(Slice(s, 0, offset))
        fwd == grapheme_indices(Slice(s, offset, Len(s)))
        walked_back == {i \in back : \A j \in back : j >= i => is_word_char(s, j)}
        walked_fwd == {i \in fwd : \A j \in fwd : j <= i => is_word_char(s, offset + j)}
        start == IF walked_back = {} THEN offset ELSE Min(walked_back)
        end == IF walked_fwd = {} THEN offset ELSE offset + Max(walked_fwd) + 1
    IN  Range(start, end)

(***************************************************************************)
(* The buffer driven by any sequence of its public mutation methods.       *)
(***************************************************************************)
Mark == <<MarkLead, MarkCont>>

\* texts handed to insert
Texts == {<<LetterA>>, <<LF>>, <<CR>>, <<SP>>, Mark}
\* texts handed to set_text
Documents == {<<>>, <<LetterA, CR, LF, LetterA, LF>>, <<LetterA>> \o Mark \o <<LF, LetterA>>}
Offsets == (-MaxMove..MaxMove) \ {0}
LineSteps == {-1, 1}

Call(op, text, n, extend) == [op |-> op, text |-> text, n |-> n, extend |-> extend]

\* a caller's script: where it is (pc), the content and cursor it saw before
\* its insert (orig, at), the line lengths of its document (lines) and the
\* number of vertical moves it has made (downs)
Scene(pc, orig, at, lines, downs) ==
    [pc |-> pc, orig |-> orig, at |-> at, lines |-> lines, downs |-> downs]

\* the variables take the fields of the buffer value b; a TextBuffer method
\* runs no scan
Sets(b) ==
    /\ content' = b.content
    /\ line_breaks' = b.line_breaks
    /\ cursor_position' = b.cursor_position
    /\ selection' = b.selection
    /\ preferred_column' = b.preferred_column
    /\ panicked' = b.panicked
    /\ scan' = scan

\* and, called on a TextBuffer of its own, touches no EditorState
Becomes(b) ==
    /\ Sets(b)
    /\ UNCHANGED edVars

\* the variables have the fields of the buffer value b
Becomes0(b) ==
    /\ content = b.content
    /\ line_breaks = b.line_breaks
    /\ cursor_position = b.cursor_position
    /\ selection = b.selection
    /\ preferred_column = b.preferred_column
    /\ panicked = b.panicked
    /\ scan = Idle
    /\ undo_stack = <<>>
    /\ redo_stack = <<>>
    /\ is_modified = FALSE
    /\ ui = UiNew
    /\ current_file = None
    /\ recent_files = <<>>
    /\ tabs = TabsNew
    /\ disk = DiskNew

Init ==
    /\ Becomes0(new)
    /\ last = Call("new", <<>>, 0, FALSE)
    /\ scene = Scene("free", <<>>, 0, <<>>, 0)

SetText ==
    \E text \in Documents :
        /\ ~panicked
        /\ Becomes(set_text(Buf, text))
        /\ last' = Call("set_text", text, 0, FALSE)
        /\ UNCHANGED scene

Insert ==
    \E text \in Texts :
        /\ ~panicked
        /\ Len(content) + Len(text) <= MaxLen
        /\ Becomes(insert(Buf, text))
        /\ last' = Call("insert", text, 0, FALSE)
        /\ UNCHANGED scene

DeleteBackward ==
    /\ ~panicked
    /\ Becomes(delete_backward(Buf))
    /\ last' = Call("delete_backward", <<>>, 0, FALSE)
    /\ UNCHANGED scene

DeleteForward ==
    /\ ~panicked
    /\ Becomes(delete_forward(Buf))
    /\ last' = Call("delete_forward", <<>>, 0, FALSE)
    /\ UNCHANGED scene

MoveCursor ==
    \E offset \in Offsets, extend_selection \in BOOLEAN :
        /\ ~panicked
        /\ Becomes(move_cursor(Buf, offset, extend_selection))
        /\ last' = Call("move_cursor", <<>>, offset, extend_selection)
        /\ UNCHANGED scene

MoveCursorVertically ==
    \E lines \in LineSteps, extend_selection \in BOOLEAN :
        /\ ~panicked
        /\ Becomes(move_cursor_vertically(Buf, lines, extend_selection))
        /\ last' = Call("move_cursor_vertically", <<>>, lines, extend_selection)
        /\ UNCHANGED scene

Next ==
    \/ SetText
    \/ Insert
    \/ DeleteBackward
    \/ DeleteForward
    \/ MoveCursor
    \/ MoveCursorVertically

Spec == Init /\ [][Next]_vars

(***************************************************************************)
(* Properties checked under Spec.                                          *)
(***************************************************************************)
\* offsets that are grapheme-cluster boundaries of s
GraphemeBoundaries(s) == grapheme_indices(s) \cup {Len(s)}

\* C1: in every reachable state 0 <= cursor_position <= len(content)
C1_CursorWithinContent ==
    0 <= cursor_position /\ cursor_position <= Len(content)

\* C2: the cursor and both endpoints of any selection are always
\* grapheme-cluster boundaries of content
C2_OnGraphemeBoundaries ==
    /\ cursor_position \in GraphemeBoundaries(content)
    /\ selection # None =>
        /\ selection[1] \in GraphemeBoundaries(content)
        /\ selection[2] \in GraphemeBoundaries(content)

\* C3: no public mutation method panics in any reachable state, whatever the
\* order of the selection endpoints
C3_NoPanic == ~panicked

\* C4: insert(text) with an active selection lo..hi yields
\* old[..lo] ++ text ++ old[hi..], cursor = lo + len(text), no selection
C4_InsertReplacesSelection ==
    [][(/\ last'.op = "insert"
        /\ selection # None
        /\ selection[1] <= selection[2]
        /\ selection[2] <= Len(content))
       => (/\ ~panicked'
           /\ content' = Slice(content, 0, selection[1]) \o last'.text
                            \o Slice(content, selection[2], Len(content))
           /\ cursor_position' = selection[1] + Len(last'.text)
           /\ selection' = None)]_vars

\* C5: insert(text) with no selection and cursor c, 0 <= c <= len, yields
\* old[..c] ++ text ++ old[c..], cursor = c + len(text), no selection and the
\* line index of the new content
C5_InsertAtCursor ==
    [][(/\ last'.op = "insert"
        /\ selection = None
        /\ cursor_position <= Len(content))
       => (/\ ~panicked'
           /\ content' = Slice(content, 0, cursor_position) \o last'.text
                            \o Slice(content, cursor_position, Len(content))
           /\ cursor_position' = cursor_position + Len(last'.text)
           /\ selection' = None
           /\ line_breaks' = update_line_breaks(content'))]_vars

\* C6: after set_text(s), text() = s, cursor = 0, selection and
\* preferred_column are absent and the line index is the one derived from s
C6_SetTextRoundTrip ==
    last.op = "set_text" =>
        /\ ~panicked
        /\ content = last.text
        /\ cursor_position = 0
        /\ selection = None
        /\ preferred_column = None
        /\ line_breaks = update_line_breaks(last.text)

\* set_text was given a text with both a CR LF and a lone LF line break
C6_Witness ==
    /\ last.op = "set_text"
    /\ \E i \in 1..(Len(content) - 1) : content[i] = CR /\ content[i + 1] = LF
    /\ \E i \in 2..Len(content) : content[i] = LF /\ content[i - 1] # CR
    /\ content = last.text

\* C9: for every offset o in 0..len, line_at_offset(o) is an index i with
\* line_starts[i] <= o and (i + 1 = line_count() or o < line_starts[i + 1])
C9_LineAtOffsetConsistent ==
    \A o \in 0..Len(content) :
        LET i == line_at_offset(Buf, o)
        IN  /\ i >= 0
            /\ i < line_count(Buf)
            /\ line_breaks[i + 1] <= o
            /\ (i + 1 = line_count(Buf) \/ o < line_breaks[i + 2])

\* after a mutation the index has three entries or more and some offset lies
\* strictly inside a line that is not the first
C9_Witness ==
    /\ last.op \in {"insert", "delete_backward", "delete_forward"}
    /\ ~panicked
    /\ Len(line_breaks) >= 3
    /\ \E o \in 0..Len(content) :
        /\ line_at_offset(Buf, o) >= 1
        /\ line_breaks[line_at_offset(Buf, o) + 1] < o

\* offsets immediately after a line-break character of s (CR LF is one break)
AfterLineBreak(s) ==
    {i \in 1..Len(s) : s[i] = LF \/ (s[i] = CR /\ (i = Len(s) \/ s[i + 1] # LF))}

\* C10: every entry of the line index other than the initial 0 is the offset
\* immediately after a line-break character; len(content) is not stored as an
\* entry of its own, so line_count() is the number of line breaks plus one
C10_IndexHoldsLineStartsOnly ==
    /\ \A k \in 2..Len(line_breaks) : line_breaks[k] \in AfterLineBreak(content)
    /\ line_count(Buf) = Cardinality(AfterLineBreak(content)) + 1

\* C11: the line index is strictly increasing, starts with 0 and ends at or
\* before len(content); every operation that changes content rebuilds it, so
\* it is always the index of the current content
C11_LineIndexWellFormed ==
    /\ Len(line_breaks) >= 1
    /\ line_breaks[1] = 0
    /\ \A k \in 1..(Len(line_breaks) - 1) : line_breaks[k] < line_breaks[k + 1]
    /\ line_breaks[Len(line_breaks)] <= Len(content)
    /\ line_breaks = update_line_breaks(content)

\* a deletion has left content whose index has three entries or more
C11_Witness ==
    /\ last.op \in {"delete_backward", "delete_forward"}
    /\ ~panicked
    /\ Len(line_breaks) >= 3
    /\ Len(content) < MaxLen

(***************************************************************************)
(* The insert-then-delete script: a caller opens a document, puts the      *)
(* cursor at an offset o, inserts a text t, selects o..o+len(t) and        *)
(* deletes the selection.                                                  *)
(***************************************************************************)
\* the valid UTF-8 strings of at most n bytes over the alphabet
RECURSIVE StringsUpTo(_)
StringsUpTo(n) ==
    IF n <= 0 THEN {<<>>}
    ELSE LET shorter == StringsUpTo(n - 1)
         IN  shorter \cup {s \in {t \o r : t \in Texts, r \in shorter} : Len(s) <= n}

InitInverse ==
    /\ Becomes0(new)
    /\ last = Call("new", <<>>, 0, FALSE)
    /\ scene = Scene("open", <<>>, 0, <<>>, 0)

InvOpen ==
    \E text \in StringsUpTo(MaxDocLen) :
        /\ scene.pc = "open"
        /\ Becomes(set_text(Buf, text))
        /\ last' = Call("set_text", text, 0, FALSE)
        /\ scene' = [scene EXCEPT !.pc = "loaded"]

InvPlace ==
    \E o \in 0..MaxDocLen :
        /\ scene.pc = "loaded"
        /\ Becomes(move_cursor(Buf, o, FALSE))
        /\ last' = Call("move_cursor", <<>>, o, FALSE)
        /\ scene' = [scene EXCEPT !.pc = "placed"]

InvInsert ==
    \E text \in Texts \cup {<<LetterA, LF, LetterA>>} :
        /\ scene.pc = "placed"
        /\ Becomes(insert(Buf, text))
        /\ last' = Call("insert", text, 0, FALSE)
        /\ scene' = [scene EXCEPT !.pc = "inserted", !.orig = content,
                                  !.at = cursor_position]

InvSelect ==
    /\ scene.pc = "inserted"
    /\ ~panicked
    /\ Becomes(set_selection(Buf, Range(scene.at, scene.at + Len(last.text))))
    /\ last' = Call("set_selection", last.text, 0, FALSE)
    /\ scene' = [scene EXCEPT !.pc = "selected"]

InvDeleteBackward ==
    /\ scene.pc = "selected"
    /\ Becomes(delete_backward(Buf))
    /\ last' = Call("delete_backward", <<>>, 0, FALSE)
    /\ scene' = [scene EXCEPT !.pc = "deleted"]

InvDeleteForward ==
    /\ scene.pc = "selected"
    /\ Becomes(delete_forward(Buf))
    /\ last' = Call("delete_forward", <<>>, 0, FALSE)
    /\ scene' = [scene EXCEPT !.pc = "deleted"]

NextInverse ==
    \/ InvOpen
    \/ InvPlace
    \/ InvInsert
    \/ InvSelect
    \/ InvDeleteBackward
    \/ InvDeleteForward

SpecInverse == InitInverse /\ [][NextInverse]_vars

\* C7: inserting t at offset o and then deleting the byte range
\* o..o+len(t) restores the original content, for every content, o and t
C7_InsertDeleteInverse ==
    /\ scene.pc \in {"inserted", "selected", "deleted"} => ~panicked
    /\ scene.pc = "deleted" => content = scene.orig

(***************************************************************************)
(* The vertical-move script: a caller opens a document of NumLines lines   *)
(* of letters, moves the cursor to column StartColumn of the first line    *)
(* and then moves down one line at a time.                                 *)
(***************************************************************************)
RECURSIVE Letters(_)
Letters(n) == IF n = 0 THEN <<>> ELSE <<LetterA>> \o Letters(n - 1)

\* the lines of the given lengths joined by LF
RECURSIVE JoinLines(_)
JoinLines(lens) ==
    IF Len(lens) = 0 THEN <<>>
    ELSE IF Len(lens) = 1 THEN Letters(lens[1])
    ELSE Letters(lens[1]) \o <<LF>> \o JoinLines(Tail(lens))

\* the byte offset at which line k (from 1) of JoinLines(lens) starts
RECURSIVE LineStart(_, _)
LineStart(lens, k) == IF k = 1 THEN 0 ELSE LineStart(lens, k - 1) + lens[k - 1] + 1

\* the first line reaches StartColumn; the others are shorter, equal or longer
LineLengthSeqs ==
    {lens \in [1..NumLines -> 0..(StartColumn + 1)] : lens[1] >= StartColumn}

InitVertical ==
    /\ Becomes0(new)
    /\ last = Call("new", <<>>, 0, FALSE)
    /\ scene = Scene("open", <<>>, 0, <<>>, 0)

VertOpen ==
    \E lens \in LineLengthSeqs :
        /\ scene.pc = "open"
        /\ Becomes(set_text(Buf, JoinLines(lens)))
        /\ last' = Call("set_text", JoinLines(lens), 0, FALSE)
        /\ scene' = [scene EXCEPT !.pc = "loaded", !.lines = lens]

VertColumn ==
    /\ scene.pc = "loaded"
    /\ Becomes(move_cursor(Buf, StartColumn, FALSE))
    /\ last' = Call("move_cursor", <<>>, StartColumn, FALSE)
    /\ scene' = [scene EXCEPT !.pc = "run"]

VertDown ==
    /\ scene.pc = "run"
    /\ ~panicked
    /\ scene.downs <= Len(scene.lines)
    /\ Becomes(move_cursor_vertically(Buf, 1, FALSE))
    /\ last' = Call("move_cursor_vertically", <<>>, 1, FALSE)
    /\ scene' = [scene EXCEPT !.downs = @ + 1]

NextVertical ==
    \/ VertOpen
    \/ VertColumn
    \/ VertDown

SpecVertical == InitVertical /\ [][NextVertical]_vars

\* C8: moving down repeatedly from column StartColumn lands at column
\* min(StartColumn, line length) on every following line of the document
C8_ColumnStability ==
    (scene.pc = "run" /\ scene.downs < Len(scene.lines)) =>
        LET k == scene.downs + 1
            len == scene.lines[k]
        IN  /\ ~panicked
            /\ cursor_position = LineStart(scene.lines, k)
                                 + (IF StartColumn < len THEN StartColumn ELSE len)

(***************************************************************************)
(* The delete script: a caller opens a document, puts the cursor at an     *)
(* offset and calls delete_backward or delete_forward once.  scene.before  *)
(* is the buffer as it was before the last call.                           *)
(***************************************************************************)
Script(pc, before) == [pc |-> pc, before |-> before]

InitDelete ==
    /\ Becomes0(new)
    /\ last = Call("new", <<>>, 0, FALSE)
    /\ scene = Script("open", new)

DelOpen ==
    \E text \in StringsUpTo(MaxDocLen) :
        /\ scene.pc = "open"
        /\ Becomes(set_text(Buf, text))
        /\ last' = Call("set_text", text, 0, FALSE)
        /\ scene' = Script("loaded", Buf)

DelPlace ==
    \E o \in 0..MaxDocLen :
        /\ scene.pc = "loaded"
        /\ Becomes(move_cursor(Buf, o, FALSE))
        /\ last' = Call("move_cursor", <<>>, o, FALSE)
        /\ scene' = Script("placed", Buf)

DelBackward ==
    /\ scene.pc = "placed"
    /\ Becomes(delete_backward(Buf))
    /\ last' = Call("delete_backward", <<>>, 0, FALSE)
    /\ scene' = Script("deleted", Buf)

DelForward ==
    /\ scene.pc = "placed"
    /\ Becomes(delete_forward(Buf))
    /\ last' = Call("delete_forward", <<>>, 0, FALSE)
    /\ scene' = Script("deleted", Buf)

NextDelete ==
    \/ DelOpen
    \/ DelPlace
    \/ DelBackward
    \/ DelForward

SpecDelete == InitDelete /\ [][NextDelete]_vars

\* the call just made was op, on a buffer with no selection whose cursor was
\* on a grapheme boundary
DeletedAtBoundary(op) ==
    /\ scene.pc = "deleted"
    /\ last.op = op
    /\ scene.before.selection = None
    /\ scene.before.cursor_position \in GraphemeBoundaries(scene.before.content)

\* C13: delete_backward with no selection and cursor > 0 on a grapheme
\* boundary deletes [b, cursor), b the last boundary below cursor, and sets
\* cursor = b; at cursor 0 it changes neither content nor cursor
C13_DeleteBackwardOneCluster ==
    DeletedAtBoundary("delete_backward") =>
        LET old == scene.before.content
            c == scene.before.cursor_position
        IN  /\ ~panicked
            /\ IF c > 0
               THEN LET b == Max({i \in GraphemeBoundaries(old) : i < c})
                    IN  /\ content = Slice(old, 0, b) \o Slice(old, c, Len(old))
                        /\ cursor_position = b
               ELSE content = old /\ cursor_position = 0

\* delete_backward removed a whole three-byte cluster (a letter and its mark)
C13_Witness ==
    /\ DeletedAtBoundary("delete_backward")
    /\ ~panicked
    /\ Len(scene.before.content) - Len(content) = 3

\* C14: delete_forward with no selection and cursor < len on a grapheme
\* boundary deletes [cursor, n), n the next boundary after cursor, and leaves
\* the cursor; at cursor = len it changes neither content nor cursor
C14_DeleteForwardOneCluster ==
    DeletedAtBoundary("delete_forward") =>
        LET old == scene.before.content
            c == scene.before.cursor_position
        IN  /\ ~panicked
            /\ cursor_position = c
            /\ IF c < Len(old)
               THEN LET n == Min({i \in GraphemeBoundaries(old) : i > c})
                    IN  content = Slice(old, 0, c) \o Slice(old, n, Len(old))
               ELSE content = old

\* delete_forward removed a whole three-byte cluster (a letter and its mark)
C14_Witness ==
    /\ DeletedAtBoundary("delete_forward")
    /\ ~panicked
    /\ Len(scene.before.content) - Len(content) = 3

(***************************************************************************)
(* The move script: a caller opens a document and makes any sequence of    *)
(* horizontal and vertical moves, extending the selection or not.          *)
(* scene.before is the buffer as it was before the last call.              *)
(***************************************************************************)
InitMove ==
    /\ Becomes0(new)
    /\ last = Call("new", <<>>, 0, FALSE)
    /\ scene = Script("open", new)

MvOpen ==
    \E text \in Documents :
        /\ scene.pc = "open"
        /\ Becomes(set_text(Buf, text))
        /\ last' = Call("set_text", text, 0, FALSE)
        /\ scene' = Script("ready", Buf)

MvHorizontal ==
    \E offset \in Offsets, extend_selection \in BOOLEAN :
        /\ scene.pc \in {"ready", "moved"}
        /\ ~panicked
        /\ Becomes(move_cursor(Buf, offset, extend_selection))
        /\ last' = Call("move_cursor", <<>>, offset, extend_selection)
        /\ scene' = Script("moved", Buf)

MvVertical ==
    \E lines \in LineSteps, extend_selection \in BOOLEAN :
        /\ scene.pc \in {"ready", "moved"}
        /\ ~panicked
        /\ Becomes(move_cursor_vertically(Buf, lines, extend_selection))
        /\ last' = Call("move_cursor_vertically", <<>>, lines, extend_selection)
        /\ scene' = Script("moved", Buf)

NextMove ==
    \/ MvOpen
    \/ MvHorizontal
    \/ MvVertical

SpecMove == InitMove /\ [][NextMove]_vars

Clamp(x, lo, hi) == IF x < lo THEN lo ELSE IF x > hi THEN hi ELSE x

\* C15: move_cursor(offset, _) sets the cursor to
\* clamp(cursor + offset, 0, len(content)) for every signed offset
C15_MoveCursorClamps ==
    (scene.pc = "moved" /\ last.op = "move_cursor") =>
        /\ ~panicked
        /\ cursor_position =
               Clamp(scene.before.cursor_position + last.n, 0, Len(content))

\* a forward move whose offset exceeds the distance to the end of a
\* non-empty content
C15_Witness ==
    /\ scene.pc = "moved"
    /\ last.op = "move_cursor"
    /\ Len(content) > 0
    /\ scene.before.cursor_position < Len(content)
    /\ scene.before.cursor_position + last.n > Len(content)
    /\ cursor_position = Len(content)

\* C16: an extending move sets the selection to new_position..end when the
\* old selection's start was the old cursor, to start..new_position for any
\* other old selection and to old_cursor..new_position when there was none;
\* a move that does not extend clears the selection; both move methods do so
C16_MoveSelectionRule ==
    scene.pc = "moved" =>
        LET old == scene.before
        IN  selection =
                IF ~last.extend THEN None
                ELSE IF old.selection # None /\ old.selection[1] = old.cursor_position
                    THEN Range(cursor_position, old.selection[2])
                ELSE IF old.selection # None
                    THEN Range(old.selection[1], cursor_position)
                ELSE Range(old.cursor_position, cursor_position)

(***************************************************************************)
(* The query script: a caller opens a document and asks one of the         *)
(* offset-taking queries, at an offset up to MaxBeyond bytes past the end. *)
(* scene.result is what the query returned.                                *)
(***************************************************************************)
EAcute == <<EAcuteLead, EAcuteCont>>
WordTexts == {<<LetterA>>, <<Underscore>>, <<SP>>, EAcute}

\* the strings of at most n bytes made of the texts in T
RECURSIVE StringsOver(_, _)
StringsOver(T, n) ==
    IF n <= 0 THEN {<<>>}
    ELSE LET shorter == StringsOver(T, n - 1)
         IN  shorter \cup {s \in {t \o r : t \in T, r \in shorter} : Len(s) <= n}

\* "x hello_world y"
HelloWorld == <<120, 32, 104, 101, 108, 108, 111, 95, 119, 111, 114, 108, 100, 32, 121>>

QueryDocuments == StringsOver(WordTexts, MaxDocLen) \cup Documents \cup {HelloWorld}

Answer(pc, result) == [pc |-> pc, result |-> result]

InitQuery ==
    /\ Becomes0(new)
    /\ last = Call("new", <<>>, 0, FALSE)
    /\ scene = Answer("open", None)

QOpen ==
    \E text \in QueryDocuments :
        /\ scene.pc = "open"
        /\ Becomes(set_text(Buf, text))
        /\ last' = Call("set_text", text, 0, FALSE)
        /\ scene' = Answer("loaded", None)

QLineAtOffset ==
    \E offset \in 0..(Len(content) + MaxBeyond) :
        /\ scene.pc = "loaded"
        /\ Becomes(Buf)
        /\ last' = Call("line_at_offset", <<>>, offset, FALSE)
        /\ scene' = Answer("asked", Some(line_at_offset(Buf, offset)))

QColumnAtOffset ==
    \E offset \in 0..(Len(content) + MaxBeyond) :
        /\ scene.pc = "loaded"
        /\ last' = Call("column_at_offset", <<>>, offset, FALSE)
        /\ IF column_at_offset_panics(Buf, offset)
           THEN Becomes(Panic(Buf)) /\ scene' = Answer("asked", None)
           ELSE Becomes(Buf) /\ scene' = Answer("asked", Some(column_at_offset(Buf, offset)))

QWordBoundary ==
    \E offset \in 0..(Len(content) + MaxBeyond) :
        /\ scene.pc = "loaded"
        /\ last' = Call("get_word_boundary_at_offset", <<>>, offset, FALSE)
        /\ IF get_word_boundary_at_offset_panics(Buf, offset)
           THEN Becomes(Panic(Buf)) /\ scene' = Answer("asked", None)
           ELSE Becomes(Buf)
                /\ scene' = Answer("asked", Some(get_word_boundary_at_offset(Buf, offset)))

NextQuery ==
    \/ QOpen
    \/ QLineAtOffset
    \/ QColumnAtOffset
    \/ QWordBoundary

SpecQuery == InitQuery /\ [][NextQuery]_vars

\* the maximal run of word clusters of s around the cluster starting at offset
WordRun(s, offset) ==
    LET G == grapheme_indices(s)
        start == Min({i \in G : i <= offset
                        /\ \A j \in G : (i <= j /\ j <= offset) => is_word_char(s, j)})
        end == Min({j \in GraphemeBoundaries(s) : j > offset
                        /\ (j = Len(s) \/ ~is_word_char(s, j))})
    IN  Range(start, end)

\* C12: for an offset at which a word cluster starts,
\* get_word_boundary_at_offset returns exactly the maximal run of word
\* characters around it, with both endpoints on grapheme boundaries
C12_WordBoundaryIsMaximalRun ==
    (/\ scene.pc = "asked"
     /\ last.op = "get_word_boundary_at_offset"
     /\ last.n \in grapheme_indices(content)
     /\ is_word_char(content, last.n))
    => (/\ ~panicked
        /\ scene.result = Some(WordRun(content, last.n))
        /\ scene.result[1][1] \in GraphemeBoundaries(content)
        /\ scene.result[1][2] \in GraphemeBoundaries(content))

\* the answer the query named by last.op gives for the offset o
AnswerAt(o) ==
    IF last.op = "line_at_offset" THEN Some(line_at_offset(Buf, o))
    ELSE IF last.op = "column_at_offset" THEN Some(column_at_offset(Buf, o))
    ELSE Some(get_word_boundary_at_offset(Buf, o))

\* C17: an offset-taking query given an offset greater than len(content)
\* treats it as len(content) and returns a result rather than failing
C17_QueriesClampOffset ==
    (scene.pc = "asked" /\ last.n > Len(content)) =>
        /\ ~panicked
        /\ scene.result = AnswerAt(Len(content))

(***************************************************************************)
(* The scanner: apply_syntax_highlighting and check_for_errors over the    *)
(* characters of a gtk::TextBuffer.  A text is a sequence of characters;   *)
(* a gtk::TextIter is a character offset 0..Len(text), Len(text) being the *)
(* end iterator.  A tag applied over [a, b) is the pair <<a, b>>.          *)
(***************************************************************************)
Quote == "\""
Backslash == "\\"
Slash == "/"
Star == "*"
Newline == "\n"
Letter == "a"

\* check_for_errors: the (open, close) pairs of the vector brackets
Brackets == << <<"(", ")">>, <<"{", "}">>, <<"[", "]">> >>

\* TextIter::is_end
is_end(text, pos) == pos = Len(text)

\* TextIter::char at a dereferenceable iterator
char(text, pos) == text[pos + 1]

\* TextIter::forward_char, forward_chars: the iterator moves count characters,
\* at most to the end iterator
forward_chars(text, pos, count) == Min({pos + count, Len(text)})

\* their return value: the iterator moved and is dereferenceable
forward_chars_ok(text, pos, count) ==
    /\ forward_chars(text, pos, count) # pos
    /\ ~is_end(text, forward_chars(text, pos, count))

\* TextIter::backward_char: the iterator moves back unless it is the first
backward_char(pos) == IF pos > 0 THEN pos - 1 ELSE pos
backward_char_ok(pos) == pos > 0

\* the letters and digits of ASCII
UpperCase ==
    <<"A", "B", "C", "D", "E", "F", "G", "H", "I", "J", "K", "L", "M", "N", "O", "P", "Q",
      "R", "S", "T", "U", "V", "W", "X", "Y", "Z">>
LowerCase ==
    <<"a", "b", "c", "d", "e", "f", "g", "h", "i", "j", "k", "l", "m", "n", "o", "p", "q",
      "r", "s", "t", "u", "v", "w", "x", "y", "z">>
Digits == {"0", "1", "2", "3", "4", "5", "6", "7", "8", "9"}
Letters26 == {UpperCase[k] : k \in 1..26} \cup {LowerCase[k] : k \in 1..26}

\* TextSearchFlags::CASE_INSENSITIVE: the characters of a text with the upper
\* case letters folded to lower case
casefold(chars) ==
    [i \in 1..Len(chars) |->
        IF \E k \in 1..26 : UpperCase[k] = chars[i]
        THEN LowerCase[CHOOSE k \in 1..26 : UpperCase[k] = chars[i]]
        ELSE chars[i]]

\* TextIter::forward_search: the first occurrence of needle at or after pos,
\* as (match_start, match_end)
forward_search(text, pos, needle) ==
    LET hits == {i \in pos..(Len(text) - Len(needle)) :
                    casefold(SubSeq(text, i + 1, i + Len(needle))) = casefold(needle)}
    IN  IF hits = {} THEN None ELSE Some(<<Min(hits), Min(hits) + Len(needle)>>)

\* TextIter::forward_to_line_end: to the newline that ends the line (that of
\* the next line when already on one), or to the end iterator
forward_to_line_end(text, pos) ==
    LET from == IF ~is_end(text, pos) /\ char(text, pos) = Newline THEN pos + 1 ELSE pos
        ends == {i \in from..(Len(text) - 1) : char(text, i) = Newline}
    IN  IF ends = {} THEN Len(text) ELSE Min(ends)

\* TextBuffer::iter_at_line_offset(line, 0): the start of the line, if the
\* buffer has that line
iter_at_line_offset(text, line) ==
    LET newlines == SortedSeq({i \in 0..(Len(text) - 1) : char(text, i) = Newline})
    IN  IF line = 0 THEN Some(0)
        ELSE IF line <= Len(newlines) THEN Some(newlines[line] + 1)
        ELSE None

\* fn highlight_error_at_position: the error tags it applies
highlight_error_at_position(text, line, col) ==
    LET iter == iter_at_line_offset(text, line)
        pos == forward_chars(text, iter[1], col)
        end == forward_chars(text, pos, 1)
    IN  IF /\ iter # None
           /\ forward_chars_ok(text, iter[1], col)
           /\ forward_chars_ok(text, pos, 1)
        THEN {<<pos, end>>}
        ELSE {}

\* check_for_errors, the loop over content.chars() for one bracket kind, from
\* the i-th character on: the (line, col) pairs it hands to
\* highlight_error_at_position.  col is incremented before it is used.
RECURSIVE bracket_walk(_, _, _, _, _, _, _, _)
bracket_walk(text, i, line, col, stack, found, open, close) ==
    IF i > Len(text) THEN found \cup {stack[k] : k \in 1..Len(stack)}
    ELSE IF text[i] = Newline
    THEN bracket_walk(text, i + 1, line + 1, 0, stack, found, open, close)
    ELSE IF text[i] = open
    THEN bracket_walk(text, i + 1, line, col + 1, Append(stack, <<line, col + 1>>),
                      found, open, close)
    ELSE IF text[i] = close /\ stack = <<>>
    THEN bracket_walk(text, i + 1, line, col + 1, stack,
                      found \cup {<<line, col + 1>>}, open, close)
    ELSE IF text[i] = close
    THEN bracket_walk(text, i + 1, line, col + 1, SubSeq(stack, 1, Len(stack) - 1),
                      found, open, close)
    ELSE bracket_walk(text, i + 1, line, col + 1, stack, found, open, close)

\* the same loop with one change: a closing bracket of any kind pops the stack
RECURSIVE bracket_walk_any_close(_, _, _, _, _, _, _, _)
bracket_walk_any_close(text, i, line, col, stack, found, open, close) ==
    LET closes == {Brackets[k][2] : k \in 1..Len(Brackets)}
    IN  IF i > Len(text) THEN found \cup {stack[k] : k \in 1..Len(stack)}
        ELSE IF text[i] = Newline
        THEN bracket_walk_any_close(text, i + 1, line + 1, 0, stack, found, open, close)
        ELSE IF text[i] = open
        THEN bracket_walk_any_close(text, i + 1, line, col + 1,
                                    Append(stack, <<line, col + 1>>), found, open, close)
        ELSE IF text[i] = close /\ stack = <<>>
        THEN bracket_walk_any_close(text, i + 1, line, col + 1, stack,
                                    found \cup {<<line, col + 1>>}, open, close)
        ELSE IF text[i] \in closes /\ stack # <<>>
        THEN bracket_walk_any_close(text, i + 1, line, col + 1,
                                    SubSeq(stack, 1, Len(stack) - 1), found, open, close)
        ELSE bracket_walk_any_close(text, i + 1, line, col + 1, stack, found, open, close)

\* check_for_errors, one turn of `for (open_bracket, close_bracket) in brackets`
unmatched_brackets_any_close(text, open, close) ==
    bracket_walk_any_close(text, 1, 0, 0, <<>>, {}, open, close)

unmatched_brackets(text, open, close) ==
    bracket_walk(text, 1, 0, 0, <<>>, {}, open, close)

\* check_for_errors, the bracket loop: the positions reported, each with the
\* opening bracket of its kind
bracket_reports(text) ==
    UNION {{<<Brackets[k][1], r[1], r[2]>> :
                r \in unmatched_brackets(text, Brackets[k][1], Brackets[k][2])} :
           k \in 1..Len(Brackets)}

\* and the error tags applied for them
bracket_errors(text) ==
    UNION {highlight_error_at_position(text, r[2], r[3]) : r \in bracket_reports(text)}

(***************************************************************************)
(* The keyword and type passes.                                            *)
(***************************************************************************)
\* apply_syntax_highlighting: the arrays keywords and types
keywords ==
    {<<"a", "s">>, <<"b", "r", "e", "a", "k">>, <<"c", "o", "n", "s", "t">>,
     <<"c", "o", "n", "t", "i", "n", "u", "e">>, <<"c", "r", "a", "t", "e">>,
     <<"e", "l", "s", "e">>, <<"e", "n", "u", "m">>, <<"e", "x", "t", "e", "r", "n">>,
     <<"f", "a", "l", "s", "e">>, <<"f", "n">>, <<"f", "o", "r">>, <<"i", "f">>,
     <<"i", "m", "p", "l">>, <<"i", "n">>, <<"l", "e", "t">>, <<"l", "o", "o", "p">>,
     <<"m", "a", "t", "c", "h">>, <<"m", "o", "d">>, <<"m", "o", "v", "e">>,
     <<"m", "u", "t">>, <<"p", "u", "b">>, <<"r", "e", "f">>,
     <<"r", "e", "t", "u", "r", "n">>, <<"s", "e", "l", "f">>, <<"S", "e", "l", "f">>,
     <<"s", "t", "a", "t", "i", "c">>, <<"s", "t", "r", "u", "c", "t">>,
     <<"s", "u", "p", "e", "r">>, <<"t", "r", "a", "i", "t">>, <<"t", "r", "u", "e">>,
     <<"t", "y", "p", "e">>, <<"u", "n", "s", "a", "f", "e">>, <<"u", "s", "e">>,
     <<"w", "h", "e", "r", "e">>, <<"w", "h", "i", "l", "e">>, <<"a", "s", "y", "n", "c">>,
     <<"a", "w", "a", "i", "t">>, <<"d", "y", "n">>,
     <<"a", "b", "s", "t", "r", "a", "c", "t">>, <<"b", "e", "c", "o", "m", "e">>,
     <<"b", "o", "x">>, <<"d", "o">>, <<"f", "i", "n", "a", "l">>,
     <<"m", "a", "c", "r", "o">>, <<"o", "v", "e", "r", "r", "i", "d", "e">>,
     <<"p", "r", "i", "v">>, <<"t", "y", "p", "e", "o", "f">>,
     <<"u", "n", "s", "i", "z", "e", "d">>, <<"v", "i", "r", "t", "u", "a", "l">>,
     <<"y", "i", "e", "l", "d">>}

types ==
    {<<"b", "o", "o", "l">>, <<"c", "h", "a", "r">>, <<"f", "3", "2">>, <<"f", "6", "4">>,
     <<"i", "8">>, <<"i", "1", "6">>, <<"i", "3", "2">>, <<"i", "6", "4">>,
     <<"i", "1", "2", "8">>, <<"i", "s", "i", "z", "e">>, <<"u", "8">>, <<"u", "1", "6">>,
     <<"u", "3", "2">>, <<"u", "6", "4">>, <<"u", "1", "2", "8">>,
     <<"u", "s", "i", "z", "e">>, <<"s", "t", "r">>, <<"S", "t", "r", "i", "n", "g">>,
     <<"V", "e", "c">>}

\* U+3042 HIRAGANA LETTER A, one character of the scanned text
HiraganaA == "U+3042"

\* char::is_alphanumeric and char::is_alphabetic of a character of the
\* scanned text
char_is_alphanumeric(c) == c \in Letters26 \cup Digits \cup {HiraganaA}
char_is_alphabetic(c) == c \in Letters26 \cup {HiraganaA}

\* Pango's JAPANESE(wc)
is_japanese(c) == c = HiraganaA

\* the start of the run of letters and digits that holds the character at pos
run_start(text, pos) ==
    Min({q \in 0..pos : \A r \in q..pos : char_is_alphanumeric(char(text, r))})

\* TextIter::starts_word (PangoLogAttr.is_word_start): a word starts at a
\* letter or digit that follows neither
starts_word(text, pos) ==
    /\ ~is_end(text, pos)
    /\ char_is_alphanumeric(char(text, pos))
    /\ (pos = 0 \/ ~char_is_alphanumeric(char(text, pos - 1)))

\* TextIter::ends_word (PangoLogAttr.is_word_end): a word ends where its run
\* of letters and digits ends, and inside a run that began with a letter
\* before a letter that changes between Japanese and not
ends_word(text, pos) ==
    /\ pos > 0
    /\ char_is_alphanumeric(char(text, pos - 1))
    /\ \/ is_end(text, pos)
       \/ ~char_is_alphanumeric(char(text, pos))
       \/ /\ char_is_alphabetic(char(text, pos))
          /\ char_is_alphabetic(char(text, run_start(text, pos - 1)))
          /\ is_japanese(char(text, pos)) # is_japanese(char(text, pos - 1))

\* TextIter::starts_line, ends_line
starts_line(text, pos) == pos = 0 \/ char(text, pos - 1) = Newline
ends_line(text, pos) == is_end(text, pos) \/ char(text, pos) = Newline

\* fn is_word_boundary; TextIter::char is NUL at the end iterator
is_word_boundary(text, pos, is_start) ==
    IF is_start
    THEN \/ starts_word(text, pos)
         \/ starts_line(text, pos)
         \/ IF backward_char_ok(pos)
            THEN ~char_is_alphanumeric(char(text, backward_char(pos)))
            ELSE TRUE
    ELSE \/ ends_word(text, pos)
         \/ ends_line(text, pos)
         \/ is_end(text, pos)
         \/ ~char_is_alphanumeric(char(text, pos))

\* the matches the loop `while let Some(..) = start_search.forward_search(word)`
\* meets from pos on: each search starts at the end of the match before
RECURSIVE word_matches(_, _, _)
word_matches(text, pos, word) ==
    LET found == forward_search(text, pos, word)
    IN  IF found = None THEN {}
        ELSE {found[1]} \cup word_matches(text, found[1][2], word)

\* the tags one of the two passes applies for its list of words
tagged_words(text, words) ==
    UNION {{m \in word_matches(text, 0, w) :
                is_word_boundary(text, m[1], TRUE) /\ is_word_boundary(text, m[2], FALSE)} :
           w \in words}

(***************************************************************************)
(* The missing-semicolon pass of check_for_errors.                         *)
(***************************************************************************)
\* the offsets of the newlines of text, in increasing order
newline_offsets(text) == SortedSeq({i \in 0..(Len(text) - 1) : char(text, i) = Newline})

\* str::lines: the lines of text as (start, end) offsets, the newline left
\* out; text after the last newline is a line unless it is empty
lines(text) ==
    LET nl == newline_offsets(text)
        start(k) == IF k = 1 THEN 0 ELSE nl[k - 1] + 1
        ended == [k \in 1..Len(nl) |-> <<start(k), nl[k]>>]
    IN  IF start(Len(nl) + 1) < Len(text)
        THEN Append(ended, <<start(Len(nl) + 1), Len(text)>>)
        ELSE ended

\* str::trim of a line: without the white space at its two ends
RECURSIVE trim(_)
trim(line) ==
    IF line = <<>> THEN line
    ELSE IF Head(line) = " " THEN trim(Tail(line))
    ELSE IF line[Len(line)] = " " THEN trim(SubSeq(line, 1, Len(line) - 1))
    ELSE line

\* str::starts_with, str::ends_with, str::contains
starts_with(line, prefix) ==
    Len(prefix) <= Len(line) /\ SubSeq(line, 1, Len(prefix)) = prefix
ends_with(line, suffix) ==
    Len(suffix) <= Len(line)
    /\ SubSeq(line, Len(line) - Len(suffix) + 1, Len(line)) = suffix
contains(line, needle) ==
    \E i \in 0..(Len(line) - Len(needle)) : SubSeq(line, i + 1, i + Len(needle)) = needle

\* fn is_inside_string, from the i-th character of text on
RECURSIVE inside_string_from(_, _, _, _)
inside_string_from(text, i, in_string, escaped) ==
    IF i > Len(text) THEN in_string
    ELSE IF text[i] = Backslash
    THEN inside_string_from(text, i + 1, in_string, ~escaped)
    ELSE IF text[i] = Quote /\ ~escaped
    THEN inside_string_from(text, i + 1, ~in_string, escaped)
    ELSE inside_string_from(text, i + 1, in_string, FALSE)

is_inside_string(text) == inside_string_from(text, 1, FALSE, FALSE)

\* check_for_errors: the condition on the trimmed line
lacks_semicolon(trimmed) ==
    /\ trimmed # <<>>
    /\ ~ends_with(trimmed, <<";">>)
    /\ ~ends_with(trimmed, <<"{">>)
    /\ ~ends_with(trimmed, <<"}">>)
    /\ ~starts_with(trimmed, <<Slash, Slash>>)
    /\ ~starts_with(trimmed, <<"p", "u", "b", " ", "f", "n">>)
    /\ ~starts_with(trimmed, <<"f", "n">>)
    /\ ~contains(trimmed, <<"-", ">">>)

\* the return value of TextIter::forward_to_line_end: the iterator has not
\* stopped on the end iterator
forward_to_line_end_ok(text, pos) == ~is_end(text, forward_to_line_end(text, pos))

\* check_for_errors, the loop over content.lines(): the error tags it applies
missing_semicolon_errors(text) ==
    UNION {LET line == SubSeq(text, lines(text)[k][1] + 1, lines(text)[k][2])
               iter == iter_at_line_offset(text, k - 1)
               end == forward_to_line_end(text, iter[1])
               between == SubSeq(text, iter[1] + 1, end)
           IN  IF /\ lacks_semicolon(trim(line))
                  /\ iter # None
                  /\ forward_to_line_end_ok(text, iter[1])
                  /\ ~contains(between, <<Slash, Slash>>)
                  /\ ~contains(between, <<Slash, Star>>)
                  /\ ~is_inside_string(between)
               THEN {<<iter[1], end>>}
               ELSE {} :
           k \in 1..Len(lines(text))}

(***************************************************************************)
(* One scan of a text.  scan.pc is the position in                         *)
(* apply_syntax_highlighting: the string loop is taken in two steps (its   *)
(* condition, which can move the iterator, then the branch chosen), each   *)
(* comment loop one turn at a time, the bracket loop of check_for_errors   *)
(* in one step.                                                            *)
(***************************************************************************)
ScanAlphabet ==
    {Quote, Backslash, Slash, Star, "(", ")", "{", "}", "[", "]", Letter, Newline}

\* "fn f() { let x = (1; }"
UnclosedParen ==
    <<"f", "n", " ", "f", "(", ")", " ", "{", " ", "l", "e", "t", " ", "x", " ", "=", " ",
      "(", "1", ";", " ", "}">>

\* "([)]"
Interleaved == <<"(", "[", ")", "]">>

\* characters that make keywords (fn, if, in), a type (i8) and identifiers, and
\* a letter that is not Latin
WordAlphabet == {"f", "i", "n", "8", " ", HiraganaA}

\* "format", "for i in 0..n", "For"
Format == <<"f", "o", "r", "m", "a", "t">>
ForIIn == <<"f", "o", "r", " ", "i", " ", "i", "n", " ", "0", ".", ".", "n">>
CapitalFor == <<"F", "o", "r">>

\* "a" a "a"
TwoStrings == <<Quote, Letter, Quote, " ", Letter, " ", Quote, Letter, Quote>>

\* "/*a*/" and "a//a", a newline, "a"
BlockA == <<Slash, Star, Letter, Star, Slash>>
TwoSlashes == <<Letter, Slash, Slash, Letter, Newline, Letter>>

\* characters that make lines with and without a terminator
LineAlphabet == {Letter, ";", " ", Newline, Quote, Slash}

\* "fn a", "a->a", "pub fn", each with a newline, and "a;", newline, "a"
FnLine == <<"f", "n", " ", Letter, Newline>>
ArrowLine == <<Letter, "-", ">", Letter, Newline>>
PubFnLine == <<"p", "u", "b", " ", "f", "n", Newline>>
LastLine == <<Letter, ";", Newline, Letter>>

ScanTexts ==
    UNION {[1..k -> ScanAlphabet] : k \in 0..MaxScanLen}
    \cup UNION {[1..k -> WordAlphabet] : k \in 0..MaxWordsLen}
    \cup UNION {[1..k -> LineAlphabet] : k \in 0..MaxLinesLen}
    \cup {UnclosedParen, Interleaved, Format, ForIIn, CapitalFor, TwoStrings, BlockA, TwoSlashes,
          FnLine, ArrowLine, PubFnLine, LastLine}

ScanSame == UNCHANGED <<bufVars, last, scene, edVars>>

InitScan ==
    /\ Becomes0(new)
    /\ last = Call("new", <<>>, 0, FALSE)
    /\ scene = Script("scan", new)

\* apply_syntax_highlighting is entered: the tags are cleared and the text
\* is read
ScanStart ==
    /\ scan.pc = "idle"
    /\ \E text \in ScanTexts :
            scan' = [Idle EXCEPT !.pc = "keywords", !.text = text]
    /\ ScanSame

\* `for keyword in keywords`
KeywordPass ==
    /\ scan.pc = "keywords"
    /\ scan' = [scan EXCEPT !.pc = "types", !.keywords = tagged_words(scan.text, keywords)]
    /\ ScanSame

\* `for type_name in types`; the string loop then starts at the start iterator
TypePass ==
    /\ scan.pc = "types"
    /\ scan' = [scan EXCEPT !.pc = "string_test", !.types = tagged_words(scan.text, types)]
    /\ ScanSame

\* the string loop: `while !start_search.is_end()` and the condition of its if
StringTest ==
    /\ scan.pc = "string_test"
    /\ IF is_end(scan.text, scan.pos)
       THEN scan' = [scan EXCEPT !.pc = "line_comment", !.pos = 0]
       ELSE IF char(scan.text, scan.pos) # Quote
       THEN scan' = [scan EXCEPT !.pc = "string_else"]
       ELSE IF ~scan.in_string
       THEN scan' = [scan EXCEPT !.pc = "string_then"]
       ELSE LET back == backward_char(scan.pos)
            IN  IF backward_char_ok(scan.pos) /\ char(scan.text, back) # Backslash
                THEN scan' = [scan EXCEPT !.pc = "string_then", !.pos = back]
                ELSE scan' = [scan EXCEPT !.pc = "string_else", !.pos = back]
    /\ ScanSame

\* the string loop, the branch taken when the condition held
StringThen ==
    /\ scan.pc = "string_then"
    /\ LET next == forward_chars(scan.text, scan.pos, 1)
       IN  IF ~scan.in_string
           THEN scan' = [scan EXCEPT !.pc = "string_test", !.pos = next,
                                     !.string_start = next, !.in_string = TRUE]
           ELSE scan' = [scan EXCEPT !.pc = "string_test", !.pos = next,
                                     !.strings = @ \cup {<<scan.string_start, next>>},
                                     !.in_string = FALSE]
    /\ ScanSame

\* the string loop, the else branch
StringElse ==
    /\ scan.pc = "string_else"
    /\ scan' = [scan EXCEPT !.pc = "string_test",
                            !.pos = forward_chars(scan.text, scan.pos, 1)]
    /\ ScanSame

\* one turn of the loop over "//"
LineComment ==
    /\ scan.pc = "line_comment"
    /\ LET found == forward_search(scan.text, scan.pos, <<Slash, Slash>>)
           comment_start == found[1][1]
           line_end == forward_to_line_end(scan.text, comment_start)
       IN  IF found = None
           THEN scan' = [scan EXCEPT !.pc = "block_comment", !.pos = 0]
           ELSE scan' = [scan EXCEPT !.comments = @ \cup {<<comment_start, line_end>>},
                                     !.pos = line_end]
    /\ ScanSame

\* one turn of the loop over "/*"
BlockComment ==
    /\ scan.pc = "block_comment"
    /\ LET opened == forward_search(scan.text, scan.pos, <<Slash, Star>>)
           block_start == opened[1][1]
           closed == forward_search(scan.text, block_start, <<Star, Slash>>)
           block_end == closed[1][1]
       IN  IF opened = None \/ closed = None
           THEN scan' = [scan EXCEPT !.pc = "errors", !.pos = 0]
           ELSE scan' = [scan EXCEPT !.comments = @ \cup {<<block_start, block_end>>},
                                     !.pos = block_end]
    /\ ScanSame

\* check_for_errors: the bracket loop, then the loop over the lines
CheckForErrors ==
    /\ scan.pc = "errors"
    /\ scan' = [scan EXCEPT !.pc = "done",
                            !.reported = bracket_reports(scan.text),
                            !.errors = bracket_errors(scan.text),
                            !.line_errors = missing_semicolon_errors(scan.text)]
    /\ ScanSame

NextScan ==
    \/ ScanStart
    \/ KeywordPass
    \/ TypePass
    \/ StringTest
    \/ StringThen
    \/ StringElse
    \/ LineComment
    \/ BlockComment
    \/ CheckForErrors

\* the scan runs on the GTK main loop without being cancelled: it takes its
\* next step whenever it has one
SpecScan == InitScan /\ [][NextScan]_vars /\ WF_vars(NextScan)

\* C18: the scan terminates on every finite input text: whatever text it is
\* started on, it reaches the end of check_for_errors
C18_ScanTerminates == <>(scan.pc = "done")

\* the 0-based positions of the brackets of one kind that have no partner in
\* text, read from the i-th character on with the open positions in stack
RECURSIVE UnmatchedFrom(_, _, _, _, _)
UnmatchedFrom(text, i, stack, open, close) ==
    IF i > Len(text) THEN {stack[k] : k \in 1..Len(stack)}
    ELSE IF text[i] = open
    THEN UnmatchedFrom(text, i + 1, Append(stack, i - 1), open, close)
    ELSE IF text[i] = close /\ stack = <<>>
    THEN {i - 1} \cup UnmatchedFrom(text, i + 1, stack, open, close)
    ELSE IF text[i] = close
    THEN UnmatchedFrom(text, i + 1, SubSeq(stack, 1, Len(stack) - 1), open, close)
    ELSE UnmatchedFrom(text, i + 1, stack, open, close)

Unmatched(text) ==
    UNION {UnmatchedFrom(text, 1, <<>>, Brackets[k][1], Brackets[k][2]) :
           k \in 1..Len(Brackets)}

\* C19: when the scan is done, the bracket error spans are exactly the
\* length-one spans over the positions of the unmatched brackets
C19_UnmatchedBracketItselfFlagged ==
    scan.pc = "done" => scan.errors = {<<p, p + 1>> : p \in Unmatched(scan.text)}

\* text with every bracket not of the kind (open, close) replaced by a letter
OnlyKind(text, open, close) ==
    LET all == UNION {{Brackets[k][1], Brackets[k][2]} : k \in 1..Len(Brackets)}
    IN  [i \in 1..Len(text) |->
            IF text[i] \in all \ {open, close} THEN Letter ELSE text[i]]

\* every kind of bracket is balanced on its own in text
BalancedPerKind(text) == Unmatched(text) = {}

\* C20: the reports and error spans of a scanned text are those each kind
\* gives on the text with the other kinds' brackets replaced by letters, and
\* a text balanced kind by kind has none
C20_KindsIndependent ==
    scan.pc = "done" =>
        /\ scan.reported = UNION {{r \in bracket_reports(
                                        OnlyKind(scan.text, Brackets[k][1], Brackets[k][2])) :
                                    r[1] = Brackets[k][1]} : k \in 1..Len(Brackets)}
        /\ scan.errors = UNION {bracket_errors(
                                    OnlyKind(scan.text, Brackets[k][1], Brackets[k][2])) :
                                k \in 1..Len(Brackets)}
        /\ BalancedPerKind(scan.text) => (scan.reported = {} /\ scan.errors = {})

\* "([)]" has been scanned and no bracket error was reported
C20_Witness ==
    /\ scan.pc = "done"
    /\ scan.text = Interleaved
    /\ scan.reported = {}
    /\ scan.errors = {}

\* the case-insensitive occurrences of the words in text whose neighbouring
\* characters, where there are any, are not alphanumeric
WholeWordOccurrences(text, words) ==
    UNION {{<<i, i + Len(w)>> : i \in {j \in 0..(Len(text) - Len(w)) :
                /\ casefold(SubSeq(text, j + 1, j + Len(w))) = casefold(w)
                /\ (j = 0 \/ ~char_is_alphanumeric(text[j]))
                /\ (j + Len(w) = Len(text) \/ ~char_is_alphanumeric(text[j + Len(w) + 1]))}} :
           w \in words}

\* C21: once the keyword and type passes have run, the keyword spans and the
\* type spans are exactly the whole-word occurrences of the listed words
C21_WholeWordSpans ==
    scan.pc \notin {"idle", "keywords", "types"} =>
        /\ scan.keywords = WholeWordOccurrences(scan.text, keywords)
        /\ scan.types = WholeWordOccurrences(scan.text, types)

\* the spans between the pairs of unescaped quotes of text, read from the
\* i-th character on: a quote after an odd number of backslashes is escaped,
\* any other quote opens a string or closes the open one
RECURSIVE QuotePairs(_, _, _, _, _)
QuotePairs(text, i, inside, opened, backslashes) ==
    IF i > Len(text) THEN {}
    ELSE IF text[i] = Backslash
    THEN QuotePairs(text, i + 1, inside, opened, backslashes + 1)
    ELSE IF text[i] # Quote \/ backslashes % 2 = 1
    THEN QuotePairs(text, i + 1, inside, opened, 0)
    ELSE IF inside
    THEN {<<opened, i - 1>>} \cup QuotePairs(text, i + 1, FALSE, opened, 0)
    ELSE QuotePairs(text, i + 1, TRUE, i, 0)

\* C22: once the string pass has run, the string spans are exactly the spans
\* between the opening and the closing quote of each pair of unescaped
\* quotes: one per pair, none for the text between two pairs
C22_OneSpanPerQuotePair ==
    scan.pc \in {"line_comment", "block_comment", "errors", "done"} =>
        scan.strings = QuotePairs(scan.text, 1, FALSE, 0, 0)

\* the character offsets that the spans of a set cover
Covered(spans) == UNION {{p \in span[1]..(span[2] - 1) : TRUE} : span \in spans}

\* needle occurs in text at the 0-based offset i
OccursAt(text, i, needle) ==
    /\ i + Len(needle) <= Len(text)
    /\ SubSeq(text, i + 1, i + Len(needle)) = needle

\* the offsets from a "//" to the end of its line, the newline left out
LineCommentOffsets(text) ==
    {p \in 0..(Len(text) - 1) :
        \E i \in 0..p : /\ OccursAt(text, i, <<Slash, Slash>>)
                        /\ \A q \in i..p : text[q + 1] # Newline}

\* the offsets from a "/*" through the nearest "*/" that follows it
BlockCommentOffsets(text) ==
    {p \in 0..(Len(text) - 1) :
        \E i \in 0..p : \E j \in (i + 2)..(Len(text) - 2) :
            /\ OccursAt(text, i, <<Slash, Star>>)
            /\ OccursAt(text, j, <<Star, Slash>>)
            /\ \A k \in (i + 2)..(j - 1) : ~OccursAt(text, k, <<Star, Slash>>)
            /\ p <= j + 1}

\* C23: once the comment passes have run, the comment spans cover exactly
\* the text from each "//" to the end of its line and from each "/*" through
\* the nearest following "*/"; a "/*" that is never closed adds nothing
C23_CommentSpans ==
    scan.pc \in {"errors", "done"} =>
        Covered(scan.comments) = LineCommentOffsets(scan.text) \cup BlockCommentOffsets(scan.text)

\* the lines of text, the text after the last newline included, that the
\* missing-terminator check is to flag, as (start, end) offsets
UnterminatedLines(text) ==
    {l \in {lines(text)[k] : k \in 1..Len(lines(text))} :
        LET line == SubSeq(text, l[1] + 1, l[2])
        IN  /\ lacks_semicolon(trim(line))
            /\ ~contains(line, <<Slash, Slash>>)
            /\ ~contains(line, <<Slash, Star>>)
            /\ ~is_inside_string(line)}

\* C24: when the scan is done, the full-line error spans are exactly the
\* spans over the non-blank lines, the last line included, that lack a
\* terminator and are neither function heads nor inside a comment or string
C24_UnterminatedLinesFlagged ==
    scan.pc = "done" => scan.line_errors = UnterminatedLines(scan.text)

(***************************************************************************)
(* EditorState: the undo and redo stacks of whole-text snapshots.          *)
(***************************************************************************)
\* push_to_undo_stack: `if self.undo_stack.len() > 100`
UndoLimit == 100

\* Vec::retain(|p| p != &path)
RECURSIVE retain_other(_, _)
retain_other(files, path) ==
    IF files = <<>> THEN <<>>
    ELSE (IF Head(files) # path THEN <<Head(files)>> ELSE <<>>)
         \o retain_other(Tail(files), path)

\* add_file that keeps the entry already there
add_file_keeps_old(files, path) ==
    LET added == <<path>> \o files
    IN  IF Len(added) > max_files THEN SubSeq(added, 1, max_files) ELSE added

\* add_file that never trims
add_file_untrimmed(files, path) == <<path>> \o retain_other(files, path)

\* fn RecentFilesManager::add_file
add_file(files, path) ==
    LET added == <<path>> \o retain_other(files, path)
    IN  IF Len(added) > max_files THEN SubSeq(added, 1, max_files) ELSE added

\* the two stacks as a value
Ed == [undo_stack |-> undo_stack, redo_stack |-> redo_stack]

\* push_to_undo_stack without the cap
push_to_undo_stack_unbounded(e, text) ==
    [undo_stack |-> Append(e.undo_stack, text), redo_stack |-> <<>>]

\* push_to_undo_stack leaving the redo stack alone
push_to_undo_stack_keeps_redo(e, text) ==
    LET pushed == Append(e.undo_stack, text)
    IN  [undo_stack |-> IF Len(pushed) > UndoLimit THEN Tail(pushed) ELSE pushed,
         redo_stack |-> e.redo_stack]

\* fn push_to_undo_stack
push_to_undo_stack(e, text) ==
    LET pushed == Append(e.undo_stack, text)
    IN  [undo_stack |-> IF Len(pushed) > UndoLimit THEN Tail(pushed) ELSE pushed,
         redo_stack |-> <<>>]

\* fn undo: the stacks it leaves and the value it returns
undo(e) ==
    IF e.undo_stack = <<>> THEN [state |-> e, result |-> None]
    ELSE LET current_text == e.undo_stack[Len(e.undo_stack)]
             popped == SubSeq(e.undo_stack, 1, Len(e.undo_stack) - 1)
             previous_text == IF popped = <<>> THEN <<>> ELSE popped[Len(popped)]
         IN  [state |-> [undo_stack |-> popped,
                         redo_stack |-> Append(e.redo_stack, current_text)],
              result |-> Some(previous_text)]

\* fn redo
redo(e) ==
    IF e.redo_stack = <<>> THEN [state |-> e, result |-> None]
    ELSE LET next_text == e.redo_stack[Len(e.redo_stack)]
         IN  [state |-> [undo_stack |-> Append(e.undo_stack, next_text),
                         redo_stack |-> SubSeq(e.redo_stack, 1, Len(e.redo_stack) - 1)],
              result |-> Some(next_text)]

\* the two stacks take the fields of e
EdBecomes(e) ==
    /\ undo_stack' = e.undo_stack
    /\ redo_stack' = e.redo_stack

(***************************************************************************)
(* The undo script: a file is opened, edits are recorded as the changed    *)
(* handler records them, and the values undo and redo return are stored    *)
(* as the undo and redo handlers store them.  scene remembers the text     *)
(* before the last edit (prev), the text before the last undo (was), what  *)
(* the last undo or redo returned (result), the step before this one       *)
(* (from), whether an undo has happened at all (undone) or since the last  *)
(* push (clean = none has), whether the last undo returned a text          *)
(* (restored), and the number of edits.                                    *)
(***************************************************************************)
Story(pc, from, prev, was, result, clean, undone, restored, edits) ==
    [pc |-> pc, from |-> from, prev |-> prev, was |-> was, result |-> result,
     clean |-> clean, undone |-> undone, restored |-> restored, edits |-> edits]

OpenTexts == {<<>>, <<LetterA>>}
EditTexts == {<<>>, <<LetterA>>, <<LetterA, LetterA>>}

InitUndo ==
    /\ Becomes0(new)
    /\ last = Call("new", <<>>, 0, FALSE)
    /\ scene = Story("closed", "closed", <<>>, <<>>, None, FALSE, FALSE, FALSE, 0)

\* fn open_file
EdOpenFile ==
    /\ scene.pc = "closed"
    /\ \E text \in OpenTexts :
        /\ Sets(set_text(Buf, text))
        /\ last' = Call("open_file", text, 0, FALSE)
    /\ \E path \in Paths :
        /\ current_file' = Some(path)
        /\ recent_files' = add_file(recent_files, path)
    /\ EdBecomes([undo_stack |-> <<>>, redo_stack |-> <<>>])
    /\ is_modified' = FALSE
    /\ scene' = [scene EXCEPT !.pc = "opened", !.from = scene.pc]
    /\ UNCHANGED <<ui, tabs, disk>>

\* the changed handler, under the lock: the text of the widget is now text
EdChanged ==
    /\ scene.pc # "closed"
    /\ scene.edits < MaxEdits
    /\ \E text \in EditTexts :
        /\ last' = Call("changed", text, 0, FALSE)
        /\ IF content # text
           THEN /\ EdBecomes(push_to_undo_stack(Ed, content))
                /\ Sets(set_text(Buf, text))
                /\ scene' = [scene EXCEPT !.pc = "edited", !.from = scene.pc,
                                          !.prev = content, !.clean = TRUE,
                                          !.edits = @ + 1]
           ELSE /\ UNCHANGED <<undo_stack, redo_stack>>
                /\ Sets(Buf)
                /\ scene' = [scene EXCEPT !.from = scene.pc]
    /\ is_modified' = TRUE
    /\ UNCHANGED <<ui, winVars>>

\* the undo handlers: undo(), and the text it returns is stored in the
\* document (the signal the widget sends when it is given that text is the
\* subject of the handler script further down)
EdUndo ==
    /\ scene.pc # "closed"
    /\ EdBecomes(undo(Ed).state)
    /\ IF undo(Ed).result # None
       THEN Sets(set_text(Buf, undo(Ed).result[1]))
       ELSE Sets(Buf)
    /\ last' = Call("undo", <<>>, 0, FALSE)
    /\ scene' = [scene EXCEPT !.pc = "undone", !.from = scene.pc, !.was = content,
                              !.result = undo(Ed).result, !.clean = FALSE,
                              !.undone = TRUE, !.restored = undo(Ed).result # None]
    /\ UNCHANGED <<is_modified, ui, winVars>>

\* the redo handlers: redo(), and the text it returns is stored in the
\* document
EdRedo ==
    /\ scene.pc # "closed"
    /\ EdBecomes(redo(Ed).state)
    /\ IF redo(Ed).result # None
       THEN Sets(set_text(Buf, redo(Ed).result[1]))
       ELSE Sets(Buf)
    /\ last' = Call("redo", <<>>, 0, FALSE)
    /\ scene' = [scene EXCEPT !.pc = "redone", !.from = scene.pc,
                              !.result = redo(Ed).result]
    /\ UNCHANGED <<is_modified, ui, winVars>>

NextUndo ==
    \/ EdOpenFile
    \/ EdChanged
    \/ EdUndo
    \/ EdRedo

SpecUndo == InitUndo /\ [][NextUndo]_vars

\* C26: from a push_to_undo_stack until the next undo the redo stack is
\* empty, and a redo in between returns None and changes neither the text
\* nor the stacks
C26_EditClearsRedo ==
    scene.clean =>
        /\ redo_stack = <<>>
        /\ redo(Ed) = [state |-> Ed, result |-> None]
        /\ (scene.pc = "redone" => scene.result = None)

\* an edit was recorded after an undo had filled the redo stack, and a redo
\* has been tried since
C26_Witness ==
    /\ scene.clean
    /\ scene.undone
    /\ scene.pc = "redone"
    /\ scene.from = "edited"

\* C27: an undo straight after an edit returns the text the document had
\* immediately before that edit, and that text is the document again
C27_UndoRestoresPreviousText ==
    (scene.pc = "undone" /\ scene.from = "edited") =>
        /\ scene.result = Some(scene.prev)
        /\ content = scene.prev

\* C28: a redo straight after an undo that returned a text puts back the
\* text the document had just before the undo
C28_UndoRedoIdentity ==
    (scene.pc = "redone" /\ scene.from = "undone" /\ scene.restored) =>
        content = scene.was

(***************************************************************************)
(* The history script: push_to_undo_stack, undo and redo called in any     *)
(* order on the two stacks alone.  A pushed snapshot differs from the one  *)
(* on top of the undo stack, so that the snapshot a push drops can be told *)
(* from the one that follows it.  scene keeps the stacks before the call   *)
(* and the snapshot pushed.                                                *)
(***************************************************************************)
HistTexts == {<<>>, <<LetterA>>}

History(pc, before, text) == [pc |-> pc, before |-> before, text |-> text]

InitHistory ==
    /\ Becomes0(new)
    /\ last = Call("new", <<>>, 0, FALSE)
    /\ scene = History("new", Ed, <<>>)

HistorySame == UNCHANGED <<bufVars, scan, is_modified, ui, winVars>>

\* fn push_to_undo_stack
HistPush ==
    /\ \E text \in HistTexts :
        /\ undo_stack # <<>> => text # undo_stack[Len(undo_stack)]
        /\ EdBecomes(push_to_undo_stack(Ed, text))
        /\ last' = Call("push_to_undo_stack", text, 0, FALSE)
        /\ scene' = History("pushed", Ed, text)
    /\ HistorySame

\* fn undo
HistUndo ==
    /\ EdBecomes(undo(Ed).state)
    /\ last' = Call("undo", <<>>, 0, FALSE)
    /\ scene' = History("undone", Ed, <<>>)
    /\ HistorySame

\* fn redo
HistRedo ==
    /\ EdBecomes(redo(Ed).state)
    /\ last' = Call("redo", <<>>, 0, FALSE)
    /\ scene' = History("redone", Ed, <<>>)
    /\ HistorySame

NextHistory ==
    \/ HistPush
    \/ HistUndo
    \/ HistRedo

SpecHistory == InitHistory /\ [][NextHistory]_vars

\* C25: neither stack ever holds more than 100 snapshots, and a push onto
\* a full undo stack drops the oldest snapshot and keeps the others in order
C25_HistoryBounded ==
    /\ Len(undo_stack) <= UndoLimit
    /\ Len(redo_stack) <= UndoLimit
    /\ (scene.pc = "pushed" /\ Len(scene.before.undo_stack) = UndoLimit) =>
            undo_stack = Append(Tail(scene.before.undo_stack), scene.text)

\* a push has just met a full undo stack and dropped its oldest snapshot,
\* which differed from the one that is now the oldest
C25_Witness ==
    /\ scene.pc = "pushed"
    /\ Len(scene.before.undo_stack) = UndoLimit
    /\ Len(undo_stack) = UndoLimit
    /\ undo_stack[1] # scene.before.undo_stack[1]

(***************************************************************************)
(* The handler script: the signal handlers of the window, run one at a     *)
(* time by the main loop.  ui.text is the text of the gtk::TextBuffer,     *)
(* ui.held_by the handler whose guard of the EditorState mutex is alive,   *)
(* ui.running the handlers that have started and not returned, outermost   *)
(* first.  gtk::TextBuffer::set_text deletes the old text and inserts the  *)
(* new one, and each of the two that changes something sends "changed"     *)
(* before set_text returns.  The changed handler locks the mutex: when the *)
(* handler that called set_text still holds it, std::sync::Mutex::lock     *)
(* does not return (it blocks for ever or panics), and neither handler     *)
(* ever does.  The tags apply_syntax_highlighting sets at the end of the   *)
(* changed handler are the scanner script's and send no "changed".         *)
(***************************************************************************)
\* the EditorState fields the handlers work on, as a value
State == [buf |-> Buf, ed |-> Ed, is_modified |-> is_modified,
          current_file |-> current_file, recent_files |-> recent_files]

\* the texts of the widget at each "changed" that set_text(text) sends when
\* the widget holds old
set_text_signals(old, text) ==
    (IF old # <<>> THEN << <<>> >> ELSE <<>>) \o (IF text # <<>> THEN <<text>> ELSE <<>>)

\* the changed handler with the mutex free: text is the text of the widget
changed(st, text) ==
    IF st.buf.content # text
    THEN [st EXCEPT !.buf = set_text(st.buf, text),
                    !.ed = push_to_undo_stack(st.ed, st.buf.content),
                    !.is_modified = TRUE]
    ELSE [st EXCEPT !.is_modified = TRUE]

\* the changed handler run for each signal of texts in turn
RECURSIVE changed_each(_, _)
changed_each(st, texts) ==
    IF texts = <<>> THEN st
    ELSE changed_each(changed(st, Head(texts)), Tail(texts))

\* the handler op returns: st is the EditorState it leaves and text the
\* text of the widget
Returns(op, st, text) ==
    /\ Sets(st.buf)
    /\ EdBecomes(st.ed)
    /\ is_modified' = st.is_modified
    /\ current_file' = st.current_file
    /\ recent_files' = st.recent_files
    /\ ui' = [ui EXCEPT !.text = text]
    /\ last' = Call(op, text, 0, FALSE)
    /\ UNCHANGED scene

\* the handler op, holding the mutex, has set the widget's text and the
\* first "changed" of signals has started the changed handler, which asks
\* for the mutex: lock() blocks for ever or panics
NeverReturns(op, st, signals) ==
    /\ Sets(st.buf)
    /\ EdBecomes(st.ed)
    /\ is_modified' = st.is_modified
    /\ current_file' = st.current_file
    /\ recent_files' = st.recent_files
    /\ \E outcome \in {"deadlock", "panic"} :
        ui' = [text |-> Head(signals), held_by |-> Some(op),
               running |-> <<op, "changed">>, outcome |-> outcome]
    /\ last' = Call(op, Head(signals), 0, FALSE)
    /\ UNCHANGED scene

\* the main loop is free to run a handler
MainLoop == ui.running = <<>> /\ ui.outcome = "none"

UiTexts == {<<>>, <<LetterA>>, <<LetterA, LetterA>>}

InitUi ==
    /\ Becomes0(new)
    /\ last = Call("new", <<>>, 0, FALSE)
    /\ scene = [edits |-> 0]

\* a key is typed or a character deleted while the view shows the first
\* tab: the widget's text becomes text and the changed handler runs
UiType ==
    /\ MainLoop
    /\ tabs.shown = 0
    /\ scene.edits < MaxEdits
    /\ \E text \in UiTexts \ {ui.text} :
        /\ Sets(changed(State, text).buf)
        /\ EdBecomes(changed(State, text).ed)
        /\ is_modified' = TRUE
        /\ ui' = [ui EXCEPT !.text = text]
        /\ last' = Call("changed", text, 0, FALSE)
    /\ scene' = [scene EXCEPT !.edits = @ + 1]
    /\ UNCHANGED winVars

\* the New button: set_text("") with the mutex free, then the state is reset
UiNewClicked ==
    /\ MainLoop
    /\ LET st == changed_each(State, set_text_signals(ui.text, <<>>))
       IN  Returns("new_file", [st EXCEPT !.buf = set_text(st.buf, <<>>),
                                          !.current_file = None,
                                          !.is_modified = FALSE], <<>>)
    /\ UNCHANGED <<tabs, disk>>

\* the response of the Open dialog: set_text(file) with the mutex free, then
\* open_file
UiOpenFile ==
    /\ MainLoop
    /\ \E text \in OpenTexts, path \in Paths :
        LET st == changed_each(State, set_text_signals(ui.text, text))
        IN  Returns("open_file", [buf |-> set_text(st.buf, text),
                                  ed |-> [undo_stack |-> <<>>, redo_stack |-> <<>>],
                                  is_modified |-> FALSE,
                                  current_file |-> Some(path),
                                  recent_files |-> add_file(st.recent_files, path)], text)
    /\ UNCHANGED <<tabs, disk>>

\* the text op (undo or redo) returned is given to the widget and then to the
\* document, all under the mutex
Restores(op, done) ==
    LET st == [State EXCEPT !.ed = done.state]
    IN  IF done.result = None
        THEN Returns(op, st, ui.text)
        ELSE LET text == done.result[1]
             IN  IF set_text_signals(ui.text, text) # <<>>
                 THEN NeverReturns(op, st, set_text_signals(ui.text, text))
                 ELSE Returns(op, [st EXCEPT !.buf = set_text(st.buf, text)], text)

\* the Undo button and Ctrl+Z
UiUndoClicked ==
    /\ MainLoop
    /\ Restores("undo", undo(Ed))
    /\ UNCHANGED <<tabs, disk>>

\* the Redo button and Ctrl+Y
UiRedoClicked ==
    /\ MainLoop
    /\ Restores("redo", redo(Ed))
    /\ UNCHANGED <<tabs, disk>>

\* the close button of the first tab
UiCloseFirstTab ==
    /\ MainLoop
    /\ IF is_modified
       THEN /\ IF set_text_signals(ui.text, <<>>) # <<>>
               THEN NeverReturns("close", State, set_text_signals(ui.text, <<>>))
               ELSE Returns("close", State, <<>>)
            /\ UNCHANGED <<tabs, disk>>
       ELSE /\ LET st == changed_each(State, set_text_signals(ui.text, <<>>))
               IN  Returns("close", [st EXCEPT !.current_file = None,
                                               !.is_modified = FALSE], <<>>)
            /\ tabs' = [tabs EXCEPT !.shown = 0]
            /\ UNCHANGED disk

\* the handlers below leave the document, the stacks and the widget alone
TabsSame == UNCHANGED <<bufVars, scan, undo_stack, redo_stack, ui, scene>>

\* the + button: a tab with a gtk::TextBuffer of its own, which no changed
\* handler is connected to; the view keeps showing what it shows
UiNewTab ==
    /\ MainLoop
    /\ Len(tabs.texts) < MaxTabs
    /\ tabs' = [tabs EXCEPT !.texts = Append(@, <<>>)]
    /\ last' = Call("new_tab", <<>>, Len(tabs.texts) + 1, FALSE)
    /\ TabsSame
    /\ UNCHANGED <<is_modified, current_file, recent_files, disk>>

\* a click on a tab: TextView::set_buffer with the buffer of that tab
UiShowTab ==
    /\ MainLoop
    /\ \E tab \in 0..Len(tabs.texts) :
        /\ tabs' = [tabs EXCEPT !.shown = tab]
        /\ last' = Call("show_tab", <<>>, tab, FALSE)
    /\ TabsSame
    /\ UNCHANGED <<is_modified, current_file, recent_files, disk>>

\* the text shown in the view
shown_text == IF tabs.shown = 0 THEN ui.text ELSE tabs.texts[tabs.shown]

\* a key is typed while the view shows an added tab: the text of that tab's
\* buffer becomes text
UiTypeInTab ==
    /\ MainLoop
    /\ tabs.shown > 0
    /\ \E text \in UiTexts \ {shown_text} :
        /\ tabs' = [tabs EXCEPT !.texts[tabs.shown] = text]
        /\ last' = Call("type_in_tab", text, tabs.shown, FALSE)
    /\ TabsSame
    /\ UNCHANGED <<is_modified, current_file, recent_files, disk>>

\* the Save button: with no current file the dialog gives a path and the
\* text is written there, otherwise it is written to the current file; the
\* text is that of the buffer the handler was built with, the first tab's.
\* last.n tells whether a current file was set
UiSave ==
    /\ MainLoop
    /\ IF current_file = None
       THEN \E path \in Paths :
                /\ disk' = [disk EXCEPT ![path] = Some(ui.text)]
                /\ current_file' = Some(path)
                /\ recent_files' = add_file(recent_files, path)
                /\ last' = Call("save", ui.text, 0, FALSE)
       ELSE /\ disk' = [disk EXCEPT ![current_file[1]] = Some(ui.text)]
            /\ last' = Call("save", ui.text, 1, FALSE)
            /\ UNCHANGED <<current_file, recent_files>>
    /\ is_modified' = FALSE
    /\ TabsSame
    /\ UNCHANGED tabs

NextUi ==
    \/ UiType
    \/ UiNewClicked
    \/ UiOpenFile
    \/ UiUndoClicked
    \/ UiRedoClicked
    \/ UiCloseFirstTab
    \/ UiNewTab
    \/ UiShowTab
    \/ UiTypeInTab
    \/ UiSave

SpecUi == InitUi /\ [][NextUi]_vars

\* C29: every handler that locks the EditorState mutex returns: none is
\* left holding it with the changed handler, started by its own set_text,
\* asking for the same mutex
C29_HandlersRunToCompletion ==
    /\ ui.running = <<>>
    /\ ui.held_by = None
    /\ ui.outcome = "none"

\* C35: the document of EditorState holds the text of the first tab's
\* widget whenever the handlers have run as far as they go
C35_DocumentFollowsWidget ==
    content = ui.text

\* C36: Save with a current file set writes to it the text of the tab the
\* view shows
C36_SaveWritesShownTab ==
    (last.op = "save" /\ last.n = 1) =>
        disk[current_file[1]] = Some(shown_text)

(***************************************************************************)
(* The selection script: the move script again, with scene.anchor holding  *)
(* the cursor at which the current run of extending moves began (None      *)
(* outside such a run).  Every run begins with no selection: set_text and  *)
(* each move that does not extend leave none.                              *)
(***************************************************************************)
Run(pc, before, anchor) == [pc |-> pc, before |-> before, anchor |-> anchor]

\* the anchor after a move from the buffer b
anchor_after(b, extend_selection) ==
    IF ~extend_selection THEN None
    ELSE IF scene.anchor = None THEN Some(b.cursor_position)
    ELSE scene.anchor

InitExtend ==
    /\ Becomes0(new)
    /\ last = Call("new", <<>>, 0, FALSE)
    /\ scene = Run("open", new, None)

ExOpen ==
    \E text \in Documents :
        /\ scene.pc = "open"
        /\ Becomes(set_text(Buf, text))
        /\ last' = Call("set_text", text, 0, FALSE)
        /\ scene' = Run("ready", Buf, None)

ExHorizontal ==
    \E offset \in Offsets, extend_selection \in BOOLEAN :
        /\ scene.pc \in {"ready", "moved"}
        /\ ~panicked
        /\ Becomes(move_cursor(Buf, offset, extend_selection))
        /\ last' = Call("move_cursor", <<>>, offset, extend_selection)
        /\ scene' = Run("moved", Buf, anchor_after(Buf, extend_selection))

ExVertical ==
    \E by \in LineSteps, extend_selection \in BOOLEAN :
        /\ scene.pc \in {"ready", "moved"}
        /\ ~panicked
        /\ Becomes(move_cursor_vertically(Buf, by, extend_selection))
        /\ last' = Call("move_cursor_vertically", <<>>, by, extend_selection)
        /\ scene' = Run("moved", Buf, anchor_after(Buf, extend_selection))

NextExtend ==
    \/ ExOpen
    \/ ExHorizontal
    \/ ExVertical

SpecExtend == InitExtend /\ [][NextExtend]_vars

\* C30: after every extending move of a run that began with no selection
\* and the cursor at a, the two endpoints of the selection are a and the
\* cursor
C30_AnchorNeverMoves ==
    (scene.pc = "moved" /\ last.extend) =>
        /\ selection # None
        /\ {selection[1], selection[2]} = {scene.anchor[1], cursor_position}

(***************************************************************************)
(* The column script: a caller opens a document, puts the cursor at an     *)
(* offset with move_cursor and then makes up to MaxRun vertical moves of   *)
(* -1, 0 or 1 lines.  scene.before is the buffer before the last call,     *)
(* scene.column the grapheme column the cursor had in its line when the    *)
(* run began, scene.moves the number of vertical moves made.  The lines    *)
(* of a text are what LF separates; a line's length leaves out its         *)
(* terminator.                                                             *)
(***************************************************************************)
\* the offsets at which the lines of s start
TextLineStarts(s) == {0} \cup {i \in 1..Len(s) : s[i] = LF}

\* the line (from 0) that offset o of s is on
TextLineOf(s, o) == Cardinality({l \in TextLineStarts(s) : l <= o}) - 1

\* where line k (from 0) of s starts
TextLineStart(s, k) == SortedSeq(TextLineStarts(s))[k + 1]

\* where line k of s ends, before its LF or CR LF
TextLineEnd(s, k) ==
    IF k + 1 >= Cardinality(TextLineStarts(s)) THEN Len(s)
    ELSE LET lf == TextLineStart(s, k + 1) - 1
         IN  IF lf > TextLineStart(s, k) /\ s[lf] = CR THEN lf - 1 ELSE lf

\* the grapheme boundaries of line k of s, from its start to its end
LineColumns(s, k) ==
    {g \in GraphemeBoundaries(s) : TextLineStart(s, k) <= g /\ g <= TextLineEnd(s, k)}

\* the grapheme column of offset o in its line
ColumnOf(s, o) ==
    Cardinality({g \in LineColumns(s, TextLineOf(s, o)) : g < o})

\* the offset of grapheme column min(column, line length) of line k of s
OffsetAtColumn(s, k, column) ==
    LET cols == SortedSeq(LineColumns(s, k))
    IN  cols[(IF column < Len(cols) - 1 THEN column ELSE Len(cols) - 1) + 1]

Trip(pc, before, column, moves) ==
    [pc |-> pc, before |-> before, column |-> column, moves |-> moves]

RunDocuments ==
    Documents \cup {JoinLines(lens) : lens \in [1..2 -> 0..2]}
RunSteps == {-1, 0, 1}

InitRun ==
    /\ Becomes0(new)
    /\ last = Call("new", <<>>, 0, FALSE)
    /\ scene = Trip("open", new, 0, 0)

RunOpen ==
    \E text \in RunDocuments :
        /\ scene.pc = "open"
        /\ Becomes(set_text(Buf, text))
        /\ last' = Call("set_text", text, 0, FALSE)
        /\ scene' = Trip("loaded", Buf, 0, 0)

RunPlace ==
    /\ scene.pc = "loaded"
    /\ \E o \in 0..Len(content) :
        /\ Becomes(move_cursor(Buf, o, FALSE))
        /\ last' = Call("move_cursor", <<>>, o, FALSE)
        /\ scene' = Trip("placed", Buf, ColumnOf(content, o), 0)

RunVertical ==
    /\ scene.pc \in {"placed", "run"}
    /\ ~panicked
    /\ scene.moves < MaxRun
    /\ \E by \in RunSteps, extend_selection \in BOOLEAN :
        /\ Becomes(move_cursor_vertically(Buf, by, extend_selection))
        /\ last' = Call("move_cursor_vertically", <<>>, by, extend_selection)
        /\ scene' = Trip("run", Buf, scene.column, scene.moves + 1)

NextRun ==
    \/ RunOpen
    \/ RunPlace
    \/ RunVertical

SpecRun == InitRun /\ [][NextRun]_vars

\* the line a vertical move of last.n lines aims at
TargetLine == TextLineOf(scene.before.content, scene.before.cursor_position) + last.n

\* C31: a vertical move to an existing line puts the cursor at grapheme
\* column min(preferred column, line length) of that line, the preferred
\* column being the cursor's column when the run began; a move of 0 lines
\* leaves the cursor where it is
C31_VerticalMoveLandsOnColumn ==
    (scene.pc = "run" /\ TargetLine >= 0
                      /\ TargetLine < Cardinality(TextLineStarts(content))) =>
        /\ ~panicked
        /\ cursor_position = OffsetAtColumn(content, TargetLine, scene.column)

\* C32: a vertical move by a negative count that aims above line 0 puts
\* the cursor at offset 0
C32_AboveFirstLineGoesToStart ==
    (scene.pc = "run" /\ last.n < 0 /\ TargetLine < 0) =>
        /\ ~panicked
        /\ cursor_position = 0

\* C33: from the first vertical move of a run on, preferred_column holds
\* the grapheme column the cursor had before that move
C33_ColumnKeptThroughRun ==
    scene.pc = "run" => preferred_column = Some(scene.column)

\* C34: after insert, delete_backward, delete_forward or move_cursor the
\* preferred column is absent, so that the next vertical move computes it
\* from the cursor
C34_EditsForgetColumn ==
    last.op \in {"insert", "delete_backward", "delete_forward", "move_cursor"} =>
        preferred_column = None

(***************************************************************************)
(* The frame script: a caller opens a document and calls the methods that  *)
(* are not edits, in any order: the two moves, set_selection and the       *)
(* queries.  scene.before is the buffer before the last call.              *)
(***************************************************************************)
InitFrame ==
    /\ Becomes0(new)
    /\ last = Call("new", <<>>, 0, FALSE)
    /\ scene = Script("open", new)

FrCalling == scene.pc \in {"ready", "called"} /\ ~panicked

FrOpen ==
    \E text \in Documents :
        /\ scene.pc = "open"
        /\ Becomes(set_text(Buf, text))
        /\ last' = Call("set_text", text, 0, FALSE)
        /\ scene' = Script("ready", Buf)

FrMoveCursor ==
    /\ FrCalling
    /\ \E offset \in Offsets, extend_selection \in BOOLEAN :
        /\ Becomes(move_cursor(Buf, offset, extend_selection))
        /\ last' = Call("move_cursor", <<>>, offset, extend_selection)
    /\ scene' = Script("called", Buf)

FrMoveCursorVertically ==
    /\ FrCalling
    /\ \E by \in LineSteps, extend_selection \in BOOLEAN :
        /\ Becomes(move_cursor_vertically(Buf, by, extend_selection))
        /\ last' = Call("move_cursor_vertically", <<>>, by, extend_selection)
    /\ scene' = Script("called", Buf)

FrSetSelection ==
    /\ FrCalling
    /\ \E range \in {None} \cup {Range(a, b) : a, b \in 0..Len(content)} :
        /\ Becomes(set_selection(Buf, range))
        /\ last' = Call("set_selection", range, 0, FALSE)
    /\ scene' = Script("called", Buf)

\* fn line_count and fn line_range take &self
FrLineQuery ==
    /\ FrCalling
    /\ Becomes(Buf)
    /\ \/ last' = Call("line_count", <<>>, line_count(Buf), FALSE)
       \/ \E line_index \in 0..line_count(Buf) :
            last' = Call("line_range", line_range(Buf, line_index), line_index, FALSE)
    /\ scene' = Script("called", Buf)

\* fn line_at_offset, fn column_at_offset and fn get_word_boundary_at_offset
\* take &self; the last two panic on an offset inside a character
FrOffsetQuery ==
    /\ FrCalling
    /\ \E offset \in 0..Len(content) :
        \/ /\ Becomes(Buf)
           /\ last' = Call("line_at_offset", <<>>, offset, FALSE)
        \/ /\ Becomes(IF column_at_offset_panics(Buf, offset) THEN Panic(Buf) ELSE Buf)
           /\ last' = Call("column_at_offset", <<>>, offset, FALSE)
        \/ /\ Becomes(IF get_word_boundary_at_offset_panics(Buf, offset)
                       THEN Panic(Buf) ELSE Buf)
           /\ last' = Call("get_word_boundary_at_offset", <<>>, offset, FALSE)
    /\ scene' = Script("called", Buf)

NextFrame ==
    \/ FrOpen
    \/ FrMoveCursor
    \/ FrMoveCursorVertically
    \/ FrSetSelection
    \/ FrLineQuery
    \/ FrOffsetQuery

SpecFrame == InitFrame /\ [][NextFrame]_vars

\* C37: the moves, set_selection and the queries leave content and the
\* line index as they were before the call
C37_MovesAndQueriesKeepText ==
    scene.pc = "called" =>
        /\ content = scene.before.content
        /\ line_breaks = scene.before.line_breaks

\* a move_cursor call has moved the cursor of a document of several lines
C37_Witness ==
    /\ scene.pc = "called"
    /\ last.op = "move_cursor"
    /\ cursor_position # scene.before.cursor_position
    /\ Len(line_breaks) > 2

(***************************************************************************)
(* The recent-files script: add_file is called again and again on the     *)
(* RecentFilesManager of EditorState, with the path after the newest one   *)
(* (the paths are numbered, and 1 follows the last), with the newest path  *)
(* again or with the oldest path of the list.  scene keeps the list before *)
(* the call and the path added.                                            *)
(***************************************************************************)
RecentPaths == 1..NumPaths

Added(pc, before, path) == [pc |-> pc, before |-> before, path |-> path]

\* the paths the script may add next
NextPaths ==
    IF recent_files = <<>> THEN {1}
    ELSE {(recent_files[1] % NumPaths) + 1, recent_files[1],
          recent_files[Len(recent_files)]}

InitRecent ==
    /\ Becomes0(new)
    /\ last = Call("new", <<>>, 0, FALSE)
    /\ scene = Added("new", <<>>, 0)

\* fn add_file
RecentAddFile ==
    /\ \E path \in NextPaths :
        /\ recent_files' = add_file(recent_files, path)
        /\ last' = Call("add_file", <<>>, path, FALSE)
        /\ scene' = Added("added", recent_files, path)
    /\ UNCHANGED <<bufVars, scan, undo_stack, redo_stack, is_modified, ui,
                   current_file, tabs, disk>>

NextRecent == RecentAddFile

SpecRecent == InitRecent /\ [][NextRecent]_vars

\* C38: recent_files holds no path twice and at most max_files paths, and
\* after add_file(path) it is path followed by the other paths in the order
\* they had, the oldest dropped when there is no room
C38_RecentFilesWellFormed ==
    /\ \A i, j \in 1..Len(recent_files) : recent_files[i] = recent_files[j] => i = j
    /\ Len(recent_files) <= max_files
    /\ scene.pc = "added" =>
        LET others == SelectSeq(scene.before, LAMBDA p : p # scene.path)
        IN  /\ recent_files[1] = scene.path
            /\ Tail(recent_files)
                   = SubSeq(others, 1, IF Len(others) < max_files - 1
                                       THEN Len(others) ELSE max_files - 1)

\* a path that was not in the full list has been added and the oldest path
\* has gone
C38_Witness ==
    /\ scene.pc = "added"
    /\ Len(scene.before) = max_files
    /\ \A i \in 1..max_files : scene.before[i] # scene.path
    /\ Len(recent_files) = max_files
    /\ \A i \in 1..max_files : recent_files[i] # scene.before[max_files]

====
